---- MODULE Spec2Model ----
(***************************************************************************)
(* Model of paunovic/alembic-bot.                                          *)
(*                                                                         *)
(*   src/alembic_bot_gocd.py  reconciliation pass: revision graph,         *)
(*                            find_heads, merge_heads, lock, main          *)
(*   src/alembic_bot_pr.py    chain repair pass: revision history index,   *)
(*                            fix_alembic_revisions, update_pull_request   *)
(*                                                                         *)
(* The source names a node's predecessors "children" (its down_revision)   *)
(* and its successors "parents"; the model keeps the source's names.       *)
(*                                                                         *)
(* Revision ids are sequences of one-character strings, so that the        *)
(* regular expression ^(\d{5})_(.{5})$, int(), "{:05d}".format and         *)
(* str.zfill are computed on characters as the code computes them.         *)
(***************************************************************************)
EXTENDS Integers, Sequences, FiniteSets, TLC

(***************************************************************************)
(* Bounds of the model.                                                    *)
(***************************************************************************)
\* number of migration files in a versions directory
MaxFiles == 4
\* number of insert_node / remove_node calls applied to a constructed graph
MaxMutations == 2
\* number of ids one insert_node call may reference (children plus parents)
MaxEdges == 2
\* number of open pull requests one chain repair pass sees
MaxPRs == 2
\* number of changed files of one pull request
MaxChanged == 2
\* number of commits on a pull request branch below its merges of master
MaxLog == 4
\* number of merges of master on top of a pull request branch
MaxMerges == 4
\* number of commits on the mainline
MasterHistory == 250
\* number of engine instances started against the same table
NumInstances == 2
\* number of times main() of one instance restarts itself
MaxRestarts == 1
\* number of migrations directories in the checkout
MaxDirs == 2
\* number of runs of the job on one checkout
MaxRuns == 2
\* number of calls of get() in a row
MaxCalls == 3

(***************************************************************************)
(* Numbers the program fixes.                                              *)
(***************************************************************************)
\* update_pull_request gives up when fetches reaches this
MaxFetchDepth == 50
\* get_last_commit_messages(6)
LogDepth == 6
\* lock() exits the process when wait_count reaches this
MaxWaitCount == 90
\* get() makes range(5) attempts
MaxAttempts == 5

(***************************************************************************)
(* Characters, integers and revision ids.                                  *)
(***************************************************************************)
None == [t |-> "none"]
Str(v) == [t |-> "str", v |-> v]
Bytes(v) == [t |-> "bytes", v |-> v]
Tuple(v) == [t |-> "tuple", v |-> v]

DigitChars == <<"0", "1", "2", "3", "4", "5", "6", "7", "8", "9">>

IsDigit(c) == \E i \in 1..10 : DigitChars[i] = c

DigitVal(c) == (CHOOSE i \in 1..10 : DigitChars[i] = c) - 1

\* int("00010") = 10
RECURSIVE int(_)
int(ds) ==
    IF ds = <<>> THEN 0
    ELSE 10 * int(SubSeq(ds, 1, Len(ds) - 1)) + DigitVal(ds[Len(ds)])

\* str(10) = "10"
RECURSIVE str(_)
str(n) ==
    IF n < 10 THEN <<DigitChars[n + 1]>>
    ELSE str(n \div 10) \o <<DigitChars[(n % 10) + 1]>>

\* "11".zfill(5) = "00011"; a string already that wide is returned unchanged
RECURSIVE zfill(_, _)
zfill(s, width) == IF Len(s) >= width THEN s ELSE zfill(<<"0">> \o s, width)

\* "{:05d}".format(n)
format_05d(n) == zfill(str(n), 5)

\* re.search(r"^(\d{5})_(.{5})$", revision): the sequential form
SeqMatch(revision) ==
    /\ Len(revision) = 11
    /\ \A i \in 1..5 : IsDigit(revision[i])
    /\ revision[6] = "_"
    /\ \A i \in 7..11 : revision[i] # "\n"

\* match.group(1) and match.group(2)
group1(revision) == SubSeq(revision, 1, 5)
group2(revision) == SubSeq(revision, 7, 11)

Rep5(c) == <<c, c, c, c, c>>

\* an id in sequential form, from its five digits and a repeated suffix letter
SeqId(d1, d2, d3, d4, d5, c) == <<d1, d2, d3, d4, d5, "_">> \o Rep5(c)

\* an id in random form: 12 hexadecimal characters
RandId(c, d) == <<c, d, c, d, c, d, c, d, c, d, c, d>>

Contains(s, x) == \E i \in 1..Len(s) : s[i] = x

Range(s) == {s[i] : i \in 1..Len(s)}

NoDuplicates(s) == \A i, j \in 1..Len(s) : i # j => s[i] # s[j]

\* tuple(x for x in s if x != r)
RECURSIVE Without(_, _)
Without(s, r) ==
    IF s = <<>> THEN <<>>
    ELSE IF s[1] = r THEN Without(Tail(s), r)
         ELSE <<s[1]>> \o Without(Tail(s), r)


Min(a, b) == IF a < b THEN a ELSE b

\* the elements of a set of integers as an ascending sequence
RECURSIVE Ascending(_)
Ascending(S) ==
    IF S = {} THEN <<>>
    ELSE LET m == CHOOSE x \in S : \A y \in S : x <= y
         IN <<m>> \o Ascending(S \ {m})

(***************************************************************************)
(* State.                                                                  *)
(***************************************************************************)
VARIABLES
    \* reconciliation pass, one versions directory (alembic_bot_gocd.py)
    files,                \* the .py files of the directory, in os.walk order
    gpc,                  \* position of the pass over this directory
    graph,                \* revision -> node, nodes reachable from the origin
    revision_map,         \* revision -> node, one per migration file
    aliased,              \* revisions whose graph node IS the revision_map node
    origin_revision,
    revisions,            \* find_heads: the work set
    processed_revisions,  \* find_heads: the processed set
    heads,                \* find_heads: the result list (revisions of the nodes)
    popped,               \* find_heads: how many times each revision was popped
    merge_head_revision,  \* merge_heads: the id of the synthesized node
    merged,               \* merge_heads: the heads it was given
    mutations,            \* number of insert_node / remove_node calls so far
    last_op,              \* the last graph mutations and the heap before them
    \* chain repair pass (alembic_bot_pr.py)
    tree,                 \* the checked-out mainline: its migration chains
    fpc,                  \* position in fix_alembic_revisions / update_pull_request
    idx_i,                \* get_alembic_revision_map: the script location in turn
    index_log,            \* get_alembic_revision_map: what each location came to
    alembic_revisions,    \* the dict script_location -> {head, history}, in order
    open_prs,             \* base branch of each open pull request, in order
    pr_i,                 \* the pull request in turn
    n_examined,           \* changed files of this pull request examined so far
    cand_k,               \* the last changed file examined
    last_classified,      \* the changed file examined last and what became of it
    files_to_update,
    later_in_chain,       \* changed files skipped for a predecessor outside the history
    update_calls,         \* calls of update_pull_request for this pull request
    base_index,           \* depth of pr_info["base"]["sha"] in mainline history
    fetches,
    master_len,           \* len(master_commits)
    master_upto,          \* mainline commits 1..master_upto are in master_commits
    raw_log,              \* what get_last_commit_messages(6) returned
    file_j,               \* update_pull_request: the file of files_to_update in turn
    ops,                  \* VCS commands run for this pull request, in order
    ignored_failure,      \* a git rm / git add of this pull request returned non-zero
    writes,               \* working-tree changes made for this pull request, in order
    error,                \* how the pass or the last update_pull_request call ended
    \* lock() around main(), one entry per engine instance (alembic_bot_gocd.py)
    lock_item,            \* the item {"id": "lock"} exists in the table
    lpc,                  \* position of each instance in lock() / main()
    wait_count,           \* wait_count of each instance
    restarts,             \* how often main() of each instance has restarted itself
    exit_status,          \* how each instance ended
    acquired,             \* the put_item of each instance has succeeded
    released,             \* what became of the delete_item of each instance
    \* main() of one instance (alembic_bot_gocd.py)
    migrations_dirs,      \* the versions directories of the checkout, in loop order
    mpc,                  \* position in main()
    dir_i,                \* directories whose loop body has run in this call of main()
    main_commit_messages, \* commit_messages of main()
    slack_messages,
    main_calls,           \* calls of main() so far: 1 + its restarts
    vcs,                  \* the VCS commands run, in order, with their return codes
    untracked,            \* merge files written whose git add failed
    exit_code,            \* how the process ended
    runs,                 \* runs of the job on this checkout so far
    before_run,           \* migrations_dirs as the current run found them
    \* get() of alembic_bot_pr.py
    get_pc,               \* position in get(url)
    attempt,              \* the loop variable of get()
    outcomes,             \* what each attempt of this call came to
    slept,                \* the arguments of time.sleep in this call
    responses             \* the attempts each earlier call needed for its response

graphVars ==
    <<files, gpc, graph, revision_map, aliased, origin_revision, revisions,
      processed_revisions, heads, popped, merge_head_revision, merged,
      mutations, last_op>>

prVars ==
    <<tree, fpc, idx_i, index_log, alembic_revisions, open_prs, pr_i, n_examined,
      cand_k, last_classified, files_to_update, later_in_chain, update_calls,
      base_index, fetches, master_len, master_upto, raw_log, file_j, ops,
      ignored_failure, writes, error>>

lockVars == <<lock_item, lpc, wait_count, restarts, exit_status, acquired, released>>

mainVars ==
    <<migrations_dirs, mpc, dir_i, main_commit_messages, slack_messages, main_calls, vcs,
      untracked, exit_code, runs, before_run>>

getVars == <<get_pc, attempt, outcomes, slept, responses>>

vars == <<graphVars, prVars, lockVars, mainVars, getVars>>

\* the variables of the other passes, left alone by the graph actions
notGraph == <<prVars, lockVars, mainVars, getVars>>

\* the variables of the other passes, left alone by the repair actions
notRepair == <<graphVars, lockVars, mainVars, getVars>>

\* the variables of the passes, left alone by the lock actions
notLock == <<graphVars, prVars, mainVars, getVars>>

\* the variables left alone by the steps of main() outside its loop body
notMain == <<prVars, lockVars, runs, before_run, getVars>>

\* no call of get() is in progress
GetIdle ==
    /\ get_pc = "idle"
    /\ attempt = 0
    /\ outcomes = <<>>
    /\ slept = <<>>
    /\ responses = <<>>

\* the process has not ended
Running == [by |-> "running", code |-> -1]

\* main() is not running
MainIdle ==
    /\ migrations_dirs = <<>>
    /\ mpc = "idle"
    /\ dir_i = 0
    /\ main_commit_messages = <<>>
    /\ slack_messages = <<>>
    /\ main_calls = 0
    /\ vcs = <<>>
    /\ untracked = {}
    /\ exit_code = Running
    /\ runs = 0
    /\ before_run = <<>>

\* no instance has been started
LockIdle ==
    /\ lock_item = FALSE
    /\ lpc = <<>>
    /\ wait_count = <<>>
    /\ restarts = <<>>
    /\ exit_status = <<>>
    /\ acquired = <<>>
    /\ released = <<>>

\* the graph engine is not running
GraphIdle ==
    /\ files = <<>>
    /\ gpc = "idle"
    /\ graph = <<>>
    /\ revision_map = <<>>
    /\ aliased = {}
    /\ origin_revision = [t |-> "none"]
    /\ revisions = {}
    /\ processed_revisions = {}
    /\ heads = <<>>
    /\ popped = <<>>
    /\ merge_head_revision = [t |-> "none"]
    /\ merged = <<>>
    /\ mutations = 0
    /\ last_op = [kind |-> "none"]

\* the values of the per-pull-request variables between pull requests
PerPullRequestReset ==
    /\ n_examined' = 0
    /\ cand_k' = 0
    /\ last_classified' = [kind |-> "none"]
    /\ files_to_update' = <<>>
    /\ later_in_chain' = <<>>
    /\ update_calls' = 0
    /\ base_index' = 0
    /\ fetches' = 0
    /\ raw_log' = <<>>
    /\ file_j' = 0
    /\ ops' = <<>>
    /\ ignored_failure' = FALSE
    /\ writes' = <<>>
    /\ error' = ""

PerPullRequestInit ==
    /\ n_examined = 0
    /\ cand_k = 0
    /\ last_classified = [kind |-> "none"]
    /\ files_to_update = <<>>
    /\ later_in_chain = <<>>
    /\ update_calls = 0
    /\ base_index = 0
    /\ fetches = 0
    /\ raw_log = <<>>
    /\ file_j = 0
    /\ ops = <<>>
    /\ ignored_failure = FALSE
    /\ writes = <<>>
    /\ error = ""

\* the chain repair pass is not running
RepairIdle ==
    /\ tree = <<>>
    /\ fpc = "idle"
    /\ idx_i = 0
    /\ index_log = <<>>
    /\ alembic_revisions = <<>>
    /\ open_prs = <<>>
    /\ pr_i = 0
    /\ master_len = 0
    /\ master_upto = 0
    /\ PerPullRequestInit

(***************************************************************************)
(* Migration files and parse_revisions_from_file.                          *)
(*                                                                         *)
(* The contents of a file are modelled by what the parser can see in it:   *)
(* whether ast.parse and the walk over the top-level assignments succeed,  *)
(* and the literals assigned to revision and down_revision (None when the  *)
(* name is not assigned, Str for a string literal, Tuple for a tuple).     *)
(***************************************************************************)
Contents(ast_ok, revision, down_revision) ==
    [ast_ok |-> ast_ok, revision |-> revision, down_revision |-> down_revision]

\* The except branch returns what the two byte-regexes capture: bytes, not
\* str; they match a quoted literal only, and both must match.
parse_revisions_from_file(file_contents) ==
    IF file_contents.ast_ok
    THEN <<file_contents.revision, file_contents.down_revision>>
    ELSE IF file_contents.revision.t = "str" /\ file_contents.down_revision.t = "str"
         THEN <<Bytes(file_contents.revision.v), Bytes(file_contents.down_revision.v)>>
         ELSE <<None, None>>

(***************************************************************************)
(* The revision graph: get_alembic_revision_graph, insert_node,            *)
(* remove_node.  A heap is the record [graph, revision_map, aliased]:      *)
(* graph[origin_revision] is the very dict stored in revision_map, every   *)
(* other graph node is a copy, so a write through one name is seen through *)
(* the other exactly for the revisions in aliased.                         *)
(***************************************************************************)
Node(revision, parents, children, filepath) ==
    [revision |-> revision, parents |-> parents, children |-> children,
     filepath |-> filepath]

Heap(g, rm, al) == [graph |-> g, revision_map |-> rm, aliased |-> al]

EmptyMap == <<>>

\* graph[k][field] = value
SetGraphField(h, k, field, value) ==
    [h EXCEPT !.graph[k][field] = value,
              !.revision_map =
                  IF k \in h.aliased
                  THEN [h.revision_map EXCEPT ![k][field] = value]
                  ELSE h.revision_map]

\* revision_map[k][field] = value
SetMapField(h, k, field, value) ==
    [h EXCEPT !.revision_map[k][field] = value,
              !.graph =
                  IF k \in h.aliased
                  THEN [h.graph EXCEPT ![k][field] = value]
                  ELSE h.graph]

\* d[k] = node, for a dict d modelled as a function
Put(d, k, node) == [x \in DOMAIN d \cup {k} |-> IF x = k THEN node ELSE d[x]]

\* del d[k]
Del(d, k) == [x \in DOMAIN d \ {k} |-> d[x]]

\* build_graph(graph[rev]), resumed at item i of revision_map.items()
RECURSIVE build_graph(_, _, _, _)
build_graph(h, order, rev, i) ==
    IF i > Len(order) THEN h
    ELSE LET r == order[i]
             revnode == h.revision_map[r]
         IN IF Contains(revnode.children, rev)
            THEN LET h1 == SetGraphField(h, rev, "parents",
                                         Append(h.graph[rev].parents, r))
                     h2 == IF r \notin DOMAIN h1.graph
                           THEN build_graph(
                                    [h1 EXCEPT !.graph = Put(h1.graph, r, h1.revision_map[r])],
                                    order, r, 1)
                           ELSE h1
                 IN build_graph(h2, order, rev, i + 1)
            ELSE build_graph(h, order, rev, i + 1)

\* the loop over the files: [raised, revision_map, order, origin_revision,
\* bytes_seen].  Every file of the model that assigns down_revision assigns
\* revision too.  A file read by the regex fallback puts a bytes children
\* value into revision_map; it is kept out of the modelled dict and
\* remembered in bytes_seen.
RECURSIVE read_files(_, _, _)
read_files(fs, i, acc) ==
    IF i > Len(fs) \/ acc.raised # "" THEN acc
    ELSE LET parsed == parse_revisions_from_file(fs[i].contents)
             revision == parsed[1]
             down_revision == parsed[2]
         IN IF revision = None /\ down_revision = None
            THEN read_files(fs, i + 1, acc)
            ELSE IF down_revision = None
                 THEN IF acc.origin_revision # None
                      THEN [acc EXCEPT !.raised = "found multiple origin revisions"]
                      ELSE read_files(fs, i + 1,
                               [acc EXCEPT
                                   !.origin_revision = revision,
                                   !.order = Append(@, revision.v),
                                   !.revision_map =
                                       Put(@, revision.v,
                                           Node(revision.v, <<>>, <<>>, fs[i].filepath))])
                 ELSE IF down_revision.t = "bytes"
                      THEN read_files(fs, i + 1, [acc EXCEPT !.bytes_seen = TRUE])
                      ELSE read_files(fs, i + 1,
                               [acc EXCEPT
                                   !.order = Append(@, revision.v),
                                   !.revision_map =
                                       Put(@, revision.v,
                                           Node(revision.v, <<>>,
                                                IF down_revision.t = "str"
                                                THEN <<down_revision.v>>
                                                ELSE down_revision.v,
                                                fs[i].filepath))])

\* [raised, heap, origin_revision]; raised is "" when the call returns
get_alembic_revision_graph(fs) ==
    LET acc == read_files(fs, 1,
                   [raised |-> "", revision_map |-> EmptyMap, order |-> <<>>,
                    origin_revision |-> None, bytes_seen |-> FALSE])
    IN IF acc.raised # ""
       THEN [raised |-> acc.raised, heap |-> Heap(EmptyMap, acc.revision_map, {}),
             origin_revision |-> acc.origin_revision]
       ELSE IF acc.origin_revision = None
            THEN [raised |-> "no origin revision found",
                  heap |-> Heap(EmptyMap, acc.revision_map, {}),
                  origin_revision |-> None]
            ELSE IF acc.bytes_seen
                 \* build_graph: `node["revision"] in revnode["children"]` with a
                 \* str on the left and bytes on the right is a TypeError
                 THEN [raised |-> "TypeError",
                       heap |-> Heap(EmptyMap, acc.revision_map, {}),
                       origin_revision |-> acc.origin_revision]
                 ELSE LET o == acc.origin_revision.v
                          h0 == Heap(Put(EmptyMap, o, acc.revision_map[o]),
                                     acc.revision_map, {o})
                      IN [raised |-> "", heap |-> build_graph(h0, acc.order, o, 1),
                          origin_revision |-> acc.origin_revision]


\* for child in children: ... graph[child]["parents"] += (revision,)
RECURSIVE insert_children(_, _, _, _)
insert_children(acc, revision, children, i) ==
    IF i > Len(children) \/ acc.raised # "" THEN acc
    ELSE IF children[i] \notin DOMAIN acc.heap.graph
         THEN [acc EXCEPT !.raised = "Child revision not found in graph"]
         ELSE insert_children(
                  [acc EXCEPT !.heap =
                      SetGraphField(@, children[i], "parents",
                                    Append(@.graph[children[i]].parents, revision))],
                  revision, children, i + 1)

\* for parent_rev in parents: ... graph[parent_rev]["children"] += (revision,)
RECURSIVE insert_parents(_, _, _, _)
insert_parents(acc, revision, parents, i) ==
    IF i > Len(parents) \/ acc.raised # "" THEN acc
    ELSE IF parents[i] \notin DOMAIN acc.heap.graph
         THEN [acc EXCEPT !.raised = "Parent revision not found in graph"]
         ELSE insert_parents(
                  [acc EXCEPT !.heap =
                      SetGraphField(@, parents[i], "children",
                                    Append(@.graph[parents[i]].children, revision))],
                  revision, parents, i + 1)

\* mutant of insert_node: the loop over parents is missing
insert_node_without_parents_loop(h, revision, children, parents, filepath) ==
    LET node == Node(revision, parents, children, filepath)
        h1 == Heap(Put(h.graph, revision, node),
                   Put(h.revision_map, revision, node),
                   h.aliased \ {revision})
    IN insert_children([raised |-> "", heap |-> h1], revision, children, 1)

\* [raised, heap]: the heap is the one left behind, also when the call raises
insert_node(h, revision, children, parents, filepath) ==
    LET node == Node(revision, parents, children, filepath)
        h1 == Heap(Put(h.graph, revision, node),
                   Put(h.revision_map, revision, node),
                   h.aliased \ {revision})
        a1 == insert_children([raised |-> "", heap |-> h1], revision, children, 1)
    IN insert_parents(a1, revision, parents, 1)

\* for child in graph[revision]["children"]: graph[child]["parents"] = ...
RECURSIVE remove_from_children(_, _, _, _)
remove_from_children(acc, revision, children, i) ==
    IF i > Len(children) \/ acc.raised # "" THEN acc
    ELSE IF children[i] \notin DOMAIN acc.heap.graph
         THEN [acc EXCEPT !.raised = "KeyError"]
         ELSE remove_from_children(
                  [acc EXCEPT !.heap =
                      SetGraphField(@, children[i], "parents",
                                    Without(@.graph[children[i]].parents, revision))],
                  revision, children, i + 1)

\* for parent_rev in graph[revision]["parents"]: graph[parent_rev]["children"] = ...
RECURSIVE remove_from_parents(_, _, _, _)
remove_from_parents(acc, revision, parents, i) ==
    IF i > Len(parents) \/ acc.raised # "" THEN acc
    ELSE IF parents[i] \notin DOMAIN acc.heap.graph
         THEN [acc EXCEPT !.raised = "KeyError"]
         ELSE remove_from_parents(
                  [acc EXCEPT !.heap =
                      SetGraphField(@, parents[i], "children",
                                    Without(@.graph[parents[i]].children, revision))],
                  revision, parents, i + 1)

\* for revnode in revision_map.values(): drop revision from both tuples
RECURSIVE scrub_revision_map(_, _, _)
scrub_revision_map(h, revision, keys) ==
    IF keys = {} THEN h
    ELSE LET k == CHOOSE x \in keys : TRUE
             h1 == SetMapField(h, k, "children",
                               Without(h.revision_map[k].children, revision))
             h2 == SetMapField(h1, k, "parents",
                               Without(h1.revision_map[k].parents, revision))
         IN scrub_revision_map(h2, revision, keys \ {k})

\* mutant of remove_node: the successors keep the removed revision
remove_node_keeping_successor_edges(h, revision) ==
    IF revision \notin DOMAIN h.graph
    THEN [raised |-> "KeyError", heap |-> h]
    ELSE LET a1 == remove_from_children([raised |-> "", heap |-> h], revision,
                                        h.graph[revision].children, 1)
             h3 == Heap(Del(a1.heap.graph, revision), Del(a1.heap.revision_map, revision),
                        a1.heap.aliased \ {revision})
         IN [raised |-> a1.raised, heap |-> h3]

\* [raised, heap]
remove_node(h, revision) ==
    IF revision \notin DOMAIN h.graph
    THEN [raised |-> "KeyError", heap |-> h]
    ELSE LET a1 == remove_from_children([raised |-> "", heap |-> h], revision,
                                        h.graph[revision].children, 1)
             a2 == remove_from_parents(a1, revision, h.graph[revision].parents, 1)
         IN IF a2.raised # "" THEN a2
            ELSE LET h3 == Heap(Del(a2.heap.graph, revision), a2.heap.revision_map,
                                a2.heap.aliased \ {revision})
                 IN IF revision \notin DOMAIN h3.revision_map
                    THEN [raised |-> "KeyError", heap |-> h3]
                    ELSE LET h4 == [h3 EXCEPT !.revision_map = Del(@, revision)]
                         IN [raised |-> "",
                             heap |-> scrub_revision_map(h4, revision,
                                                         DOMAIN h4.revision_map)]

(***************************************************************************)
(* merge_heads: the id of the merge node.  uuid4().hex is drawn by the     *)
(* caller: token is its first 12 characters, suffix the first 5 of a       *)
(* second draw.                                                            *)
(***************************************************************************)
\* mutant of max_rev_count_loop: the prefix of the last head, not the largest
RECURSIVE max_rev_count_loop_last(_, _, _)
max_rev_count_loop_last(revs, i, max_rev_count) ==
    IF i > Len(revs) THEN [broke |-> FALSE, max_rev_count |-> max_rev_count]
    ELSE IF ~SeqMatch(revs[i]) THEN [broke |-> TRUE, max_rev_count |-> max_rev_count]
         ELSE max_rev_count_loop_last(revs, i + 1, int(group1(revs[i])))

\* the for loop over the heads: [broke, max_rev_count]
RECURSIVE max_rev_count_loop(_, _, _)
max_rev_count_loop(revs, i, max_rev_count) ==
    IF i > Len(revs) THEN [broke |-> FALSE, max_rev_count |-> max_rev_count]
    ELSE IF ~SeqMatch(revs[i]) THEN [broke |-> TRUE, max_rev_count |-> max_rev_count]
         ELSE LET rev_count == int(group1(revs[i]))
              IN max_rev_count_loop(revs, i + 1,
                     IF rev_count > max_rev_count THEN rev_count ELSE max_rev_count)

new_merge_head_revision(revs, token, suffix) ==
    LET loop == max_rev_count_loop(revs, 1, 0)
    IN IF loop.broke THEN token
       ELSE format_05d(loop.max_rev_count + 1) \o <<"_">> \o suffix

\* the contents written to <merge_head_revision>_merge_heads.py
\* `down_revision = ("a")` is a parenthesised string, not a tuple
\* mutant of merge_heads_file_contents: only the first head is named as predecessor
merge_heads_file_contents_first_head(rev, revs) ==
    Contents(TRUE, Str(rev), Str(revs[1]))

merge_heads_file_contents(rev, revs) ==
    Contents(TRUE, Str(rev), IF Len(revs) = 1 THEN Str(revs[1]) ELSE Tuple(revs))

\* mutant of merge_heads: the heads passed as parents, not as children
merge_heads_as_parents(h, revs, token, suffix) ==
    LET rev == new_merge_head_revision(revs, token, suffix)
        file == [filepath |-> <<"merge_heads", rev>>,
                 contents |-> merge_heads_file_contents(rev, revs)]
        ins == insert_node(h, rev, <<>>, revs, file.filepath)
    IN [raised |-> ins.raised, heap |-> ins.heap, merge_head_revision |-> rev,
        file |-> file]

\* [raised, heap, merge_head_revision, file]
merge_heads(h, revs, token, suffix) ==
    LET rev == new_merge_head_revision(revs, token, suffix)
        file == [filepath |-> <<"merge_heads", rev>>,
                 contents |-> merge_heads_file_contents(rev, revs)]
        ins == insert_node(h, rev, revs, <<>>, file.filepath)
    IN [raised |-> ins.raised, heap |-> ins.heap, merge_head_revision |-> rev,
        file |-> file]


(***************************************************************************)
(* Directories of the model.  File i of a directory declares as            *)
(* predecessors a set of files before it in os.walk order; ids are given   *)
(* to the files by one of the namings below.                               *)
(***************************************************************************)
\* all ids in sequential form, the prefixes not in file order
SequentialNames ==
    <<SeqId("0", "0", "0", "0", "1", "a"), SeqId("0", "0", "0", "0", "7", "b"),
      SeqId("0", "0", "0", "0", "9", "c"), SeqId("0", "0", "0", "1", "0", "d"),
      SeqId("0", "0", "0", "0", "8", "e"), SeqId("0", "0", "0", "0", "3", "f")>>

\* ids in random form next to ids in sequential form
MixedNames ==
    <<RandId("a", "1"), SeqId("0", "0", "0", "0", "7", "b"), RandId("c", "3"),
      SeqId("0", "0", "0", "0", "9", "c"), RandId("e", "5"), RandId("f", "6")>>

Namings == {SequentialNames, MixedNames}

\* what uuid.uuid4().hex[:12] and uuid.uuid4().hex[:5] can return here
Tokens == {RandId("d", "0"), RandId("9", "b")}
Suffixes == {Rep5("e"), Rep5("4")}

\* ids for insert_node calls, and an id that is in no graph
InsertIds == <<RandId("0", "1"), RandId("0", "2"), RandId("0", "3"), RandId("0", "4")>>
AbsentId == RandId("f", "f")

\* the predecessor sets: file i names files before it; none for a root
RECURSIVE Shapes(_)
Shapes(n) ==
    IF n = 0 THEN {<<>>}
    ELSE {Append(p, S) : p \in Shapes(n - 1), S \in SUBSET (1..(n - 1))}

WellFormed(n, p) == n >= 1 /\ \A i \in 2..n : p[i] # {}

Directory(n, p, names) ==
    [i \in 1..n |->
        [filepath |-> <<"versions", i>>,
         contents |->
            Contents(TRUE, Str(names[i]),
                     IF p[i] = {} THEN None
                     ELSE IF Cardinality(p[i]) = 1
                          THEN Str(names[CHOOSE j \in p[i] : TRUE])
                          ELSE Tuple([k \in 1..Cardinality(p[i]) |->
                                         names[Ascending(p[i])[k]]]))]]

FileCounts == 0..Min(MaxFiles, Len(SequentialNames))

Directories ==
    UNION {{Directory(n, p, names) : p \in Shapes(n), names \in Namings} :
           n \in FileCounts}

WellFormedDirectories ==
    UNION {{Directory(n, p, SequentialNames) : p \in {q \in Shapes(n) : WellFormed(n, q)}} :
           n \in FileCounts}

NoOp == [kind |-> "none"]

GraphInit(dirs) ==
    /\ files \in dirs
    /\ gpc = "start"
    /\ graph = EmptyMap
    /\ revision_map = EmptyMap
    /\ aliased = {}
    /\ origin_revision = None
    /\ revisions = {}
    /\ processed_revisions = {}
    /\ heads = <<>>
    /\ popped = EmptyMap
    /\ merge_head_revision = None
    /\ merged = <<>>
    /\ mutations = 0
    /\ last_op = NoOp
    /\ RepairIdle
    /\ LockIdle
    /\ MainIdle
    /\ GetIdle

CurrentHeap == Heap(graph, revision_map, aliased)

SetHeap(h) ==
    /\ graph' = h.graph
    /\ revision_map' = h.revision_map
    /\ aliased' = h.aliased

(***************************************************************************)
(* Actions of the reconciliation pass over one directory: the body of the  *)
(* for loop of main().                                                     *)
(***************************************************************************)
\* graph, origin_revision, revision_map = get_alembic_revision_graph(migrations_dir)
GetAlembicRevisionGraph ==
    /\ gpc = "start"
    /\ LET r == get_alembic_revision_graph(files)
       IN /\ SetHeap(r.heap)
          /\ origin_revision' = r.origin_revision
          /\ gpc' = IF r.raised = "" THEN "built" ELSE "raised"
    /\ UNCHANGED <<notGraph, files, revisions, processed_revisions, heads, popped,
                   merge_head_revision, merged, mutations, last_op>>

\* find_heads(graph, graph[origin_revision]): the lines before the while loop
FindHeadsBegin ==
    /\ gpc \in {"built", "merged"}
    /\ mutations = 0
    /\ LET node == graph[origin_revision.v]
       IN revisions' = IF Range(node.parents) # {} THEN Range(node.parents)
                       ELSE {node.revision}
    /\ processed_revisions' = {}
    /\ heads' = <<>>
    /\ popped' = EmptyMap
    /\ gpc' = "finding"
    /\ UNCHANGED <<notGraph, files, graph, revision_map, aliased, origin_revision,
                   merge_head_revision, merged, mutations, last_op>>

\* mutant of find_heads_iteration: a head is not added to processed_revisions
find_heads_iteration_head_unprocessed(revision) ==
    /\ revisions' =
          IF graph[revision].parents = <<>> THEN revisions \ {revision}
          ELSE (revisions \ {revision})
                   \cup {q \in Range(graph[revision].parents) :
                            q \notin processed_revisions}
    /\ processed_revisions' =
          IF graph[revision].parents = <<>> THEN processed_revisions
          ELSE processed_revisions \cup Range(graph[revision].parents)
    /\ heads' = IF graph[revision].parents = <<>> THEN Append(heads, revision)
                ELSE heads

\* one iteration of the while loop; set.pop() returns an arbitrary element
find_heads_iteration(revision) ==
    /\ revisions' =
          IF graph[revision].parents = <<>> THEN revisions \ {revision}
          ELSE (revisions \ {revision})
                   \cup {q \in Range(graph[revision].parents) :
                            q \notin processed_revisions}
    /\ processed_revisions' =
          IF graph[revision].parents = <<>> THEN processed_revisions \cup {revision}
          ELSE processed_revisions \cup Range(graph[revision].parents)
    /\ heads' = IF graph[revision].parents = <<>> THEN Append(heads, revision)
                ELSE heads

FindHeadsPop ==
    /\ gpc = "finding"
    /\ \E revision \in revisions :
          /\ find_heads_iteration(revision)
          /\ popped' = Put(popped, revision,
                            IF revision \in DOMAIN popped THEN popped[revision] + 1
                            ELSE 1)
    /\ UNCHANGED <<notGraph, files, gpc, graph, revision_map, aliased, origin_revision,
                   merge_head_revision, merged, mutations, last_op>>

\* return heads
FindHeadsReturn ==
    /\ gpc = "finding"
    /\ revisions = {}
    /\ gpc' = "found"
    /\ UNCHANGED <<notGraph, files, graph, revision_map, aliased, origin_revision, revisions,
                   processed_revisions, heads, popped, merge_head_revision, merged,
                   mutations, last_op>>

\* if len(heads) > 1: merge_heads(graph, revision_map, migrations_dir, revisions_to_merge)
\* The drawn ids are new to the directory.
MergeHeads ==
    /\ gpc = "found"
    /\ merged = <<>>
    /\ Len(heads) > 1
    /\ \E token \in Tokens, suffix \in Suffixes :
          LET r == merge_heads(CurrentHeap, heads, token, suffix)
          IN /\ r.merge_head_revision \notin DOMAIN revision_map
             /\ SetHeap(r.heap)
             /\ merge_head_revision' = Str(r.merge_head_revision)
             /\ files' = Append(files, r.file)
             /\ gpc' = IF r.raised = "" THEN "merged" ELSE "raised"
    /\ merged' = heads
    /\ UNCHANGED <<notGraph, origin_revision, revisions, processed_revisions, heads,
                   popped, mutations, last_op>>

\* the next run of the job reads the directory again
NextPass ==
    /\ gpc = "found"
    /\ Len(heads) <= 1 \/ merged # <<>>
    /\ gpc' = "start"
    /\ SetHeap(Heap(EmptyMap, EmptyMap, {}))
    /\ origin_revision' = None
    /\ revisions' = {}
    /\ processed_revisions' = {}
    /\ heads' = <<>>
    /\ popped' = EmptyMap
    /\ merge_head_revision' = None
    /\ merged' = <<>>
    /\ UNCHANGED <<notGraph, files, mutations, last_op>>

\* the elements of a set as a tuple, in some fixed order
RECURSIVE AsTuple(_)
AsTuple(S) ==
    IF S = {} THEN <<>>
    ELSE LET x == CHOOSE y \in S : TRUE
         IN <<x>> \o AsTuple(S \ {x})

\* the first of InsertIds that is a key of neither dict
NextInsertId ==
    InsertIds[CHOOSE i \in 1..Len(InsertIds) :
                 /\ InsertIds[i] \notin DOMAIN graph \cup DOMAIN revision_map
                 /\ \A j \in 1..(i - 1) :
                       InsertIds[j] \in DOMAIN graph \cup DOMAIN revision_map]

\* a caller inserts a node under a new revision id
InsertNode ==
    /\ gpc = "built"
    /\ mutations < MaxMutations
    /\ \E cs, ps \in SUBSET (DOMAIN graph \cup {AbsentId}) :
          /\ Cardinality(cs) + Cardinality(ps) <= MaxEdges
          /\ LET r == insert_node(CurrentHeap, NextInsertId, AsTuple(cs), AsTuple(ps),
                                  <<"inserted", mutations>>)
             IN /\ SetHeap(r.heap)
                /\ gpc' = IF r.raised = "" THEN "built" ELSE "raised"
                /\ last_op' = IF r.raised = ""
                              THEN [kind |-> "insert", revision |-> NextInsertId,
                                    before |-> CurrentHeap]
                              ELSE [kind |-> "raised"]
    /\ mutations' = mutations + 1
    /\ UNCHANGED <<notGraph, files, origin_revision, revisions, processed_revisions, heads,
                   popped, merge_head_revision, merged>>

\* a caller removes a node of the graph
RemoveNode ==
    /\ gpc = "built"
    /\ mutations < MaxMutations
    /\ \E revision \in DOMAIN graph :
          LET r == remove_node(CurrentHeap, revision)
          IN /\ SetHeap(r.heap)
             /\ gpc' = IF r.raised = "" THEN "built" ELSE "raised"
             /\ last_op' = IF r.raised # "" THEN [kind |-> "raised"]
                           ELSE IF last_op.kind = "insert" /\ last_op.revision = revision
                                THEN [last_op EXCEPT !.kind = "insert_remove"]
                                ELSE [kind |-> "remove"]
    /\ mutations' = mutations + 1
    /\ UNCHANGED <<notGraph, files, origin_revision, revisions, processed_revisions, heads,
                   popped, merge_head_revision, merged>>

GraphNext ==
    \/ GetAlembicRevisionGraph
    \/ FindHeadsBegin
    \/ FindHeadsPop
    \/ FindHeadsReturn
    \/ MergeHeads
    \/ NextPass

MutateNext ==
    \/ GetAlembicRevisionGraph
    \/ InsertNode
    \/ RemoveNode

InitGraph == GraphInit(Directories)

InitMutate == GraphInit(WellFormedDirectories)

\* the reconciliation pass over one directory, run after run
SpecGraph == InitGraph /\ [][GraphNext]_vars

\* a constructed graph under insert_node and remove_node calls
SpecMutate == InitMutate /\ [][MutateNext]_vars

(***************************************************************************)
(* Properties of the revision graph.                                       *)
(***************************************************************************)
GraphLive == gpc \in {"built", "finding", "found", "merged"}

\* p is in n's predecessors iff n is in p's successors, and no edge leaves the graph
EdgeConsistent(g) ==
    \A n \in DOMAIN g :
        /\ \A p \in Range(g[n].children) : p \in DOMAIN g /\ Contains(g[p].parents, n)
        /\ \A q \in Range(g[n].parents) : q \in DOMAIN g /\ Contains(g[q].children, n)

\* C1: after construction from a well-formed directory and after every
\* successful insert_node (new id) and remove_node (existing id) call, p is a
\* predecessor of n iff n is a successor of p, and every id an edge names is a
\* key of the graph.
C1_EdgeConsistency == GraphLive => EdgeConsistent(graph)

\* C1 witness: an insert_node call with edges has succeeded on a graph that
\* holds a node with several predecessors.
C1_Witness ==
    /\ gpc = "built"
    /\ last_op.kind = "insert"
    /\ graph[last_op.revision].children # <<>>
    /\ graph[last_op.revision].parents # <<>>
    /\ \E n \in DOMAIN graph : n # last_op.revision /\ Len(graph[n].children) > 1

\* C7: insert_node of a new id followed at once by remove_node of that id
\* leaves graph and revision_map as they were before the insertion.
C7_InsertRemoveRoundTrip ==
    last_op.kind = "insert_remove" =>
        /\ graph = last_op.before.graph
        /\ revision_map = last_op.before.revision_map

\* C7 witness: the round trip has run for a node that was inserted with both
\* predecessors and successors.
C7_Witness ==
    /\ last_op.kind = "insert_remove"
    /\ gpc = "built"
    /\ \E n \in DOMAIN graph : Len(graph[n].children) > 1
    /\ mutations = 2


(***************************************************************************)
(* Properties of find_heads and merge_heads.                               *)
(***************************************************************************)
\* the ids a file declares as predecessors
PredsOf(f) ==
    LET d == parse_revisions_from_file(f.contents)[2]
    IN IF d.t = "none" THEN {}
       ELSE IF d.t = "tuple" THEN Range(d.v) ELSE {d.v}

RevisionOf(f) == parse_revisions_from_file(f.contents)[1].v

\* a linear chain of N >= 1 files
LinearChain(fs) ==
    /\ Len(fs) >= 1
    /\ Cardinality({i \in 1..Len(fs) : PredsOf(fs[i]) = {}}) = 1
    /\ \A i \in 1..Len(fs) : Cardinality(PredsOf(fs[i])) <= 1
    /\ \A i, j \in 1..Len(fs) : i # j => PredsOf(fs[i]) \cap PredsOf(fs[j]) = {}

\* the revisions of the files that no file names as predecessor
FilesWithoutSuccessor(fs) ==
    {RevisionOf(fs[i]) : i \in {k \in 1..Len(fs) :
                                   \A j \in 1..Len(fs) : RevisionOf(fs[k]) \notin PredsOf(fs[j])}}

\* C2: on a constructed graph find_heads, started at the root, returns the
\* nodes without successor, each once, in every pop order; for a linear chain
\* that is one head, the file with no successor.
C2_FindHeadsExact ==
    (gpc = "found" /\ merged = <<>>) =>
        /\ NoDuplicates(heads)
        /\ Range(heads) = {n \in DOMAIN graph : graph[n].parents = <<>>}
        /\ LinearChain(files) =>
              /\ Len(heads) = 1
              /\ Range(heads) = FilesWithoutSuccessor(files)

\* C2 witness: find_heads has returned two or more heads on a graph with a
\* node that has several predecessors.
C2_Witness ==
    /\ gpc = "found"
    /\ merged = <<>>
    /\ Len(heads) >= 2
    /\ \E n \in DOMAIN graph : Len(graph[n].children) > 1

IsMergeFile(f) == f.filepath[1] = "merge_heads"

\* C3: after merge_heads on all the heads find_heads returned (two or more),
\* the new node has exactly those heads as predecessors and no successor,
\* every former head has it as a successor, and find_heads run again from
\* the root (on this graph, or on the graph built again from the directory)
\* returns the new node alone.
C3_MergeLeavesOneHead ==
    /\ (merged # <<>> /\ GraphLive) =>
          LET m == merge_head_revision.v
          IN /\ Len(merged) >= 2
             /\ m \in DOMAIN graph
             /\ graph[m].children = merged
             /\ graph[m].parents = <<>>
             /\ \A h \in Range(merged) : Contains(graph[h].parents, m)
             /\ gpc = "found" => heads = <<m>>
    /\ (merged = <<>> /\ gpc = "found" /\ files # <<>> /\ IsMergeFile(files[Len(files)])) =>
          heads = <<RevisionOf(files[Len(files)])>>

\* C3 witness: find_heads has run again after three heads were merged.
C3_Witness ==
    /\ gpc = "found"
    /\ Len(merged) = 3
    /\ heads = <<merge_head_revision.v>>

\* the largest numeric prefix among ids in sequential form
MaxPrefix(revs) ==
    CHOOSE n \in {int(group1(r)) : r \in Range(revs)} :
        \A r \in Range(revs) : int(group1(r)) <= n

\* C8: if every head id is in sequential form, the merge id is the largest
\* prefix plus one, zero-padded to 5 digits, then '_' and a 5-character
\* suffix; otherwise it is a 12-character random token.
C8_MergeHeadRevision ==
    (gpc = "merged") =>
        LET m == merge_head_revision.v
        IN IF \A h \in Range(merged) : SeqMatch(h)
           THEN /\ Len(m) = 11
                /\ SubSeq(m, 1, 5) = zfill(str(MaxPrefix(merged) + 1), 5)
                /\ m[6] = "_"
                /\ SubSeq(m, 7, 11) \in Suffixes
           ELSE /\ Len(m) = 12
                /\ m \in Tokens

\* C8 witness: heads with prefixes 00007 and 00009 were merged into an id
\* with prefix 00010.
C8_Witness ==
    /\ gpc = "merged"
    /\ \A h \in Range(merged) : SeqMatch(h)
    /\ {int(group1(h)) : h \in Range(merged)} = {7, 9}
    /\ SubSeq(merge_head_revision.v, 1, 5) = <<"0", "0", "0", "1", "0">>


(***************************************************************************)
(* Chain repair pass: alembic_bot_pr.py.                                   *)
(*                                                                         *)
(* Paths are sequences of characters, like ids, so that str.startswith,    *)
(* str.endswith, str.replace and re.sub act on characters.                 *)
(***************************************************************************)
\* s.startswith(prefix)
StartsWith(s, prefix) ==
    Len(s) >= Len(prefix) /\ SubSeq(s, 1, Len(prefix)) = prefix

\* s.endswith(suffix)
EndsWith(s, suffix) ==
    Len(s) >= Len(suffix) /\ SubSeq(s, Len(s) - Len(suffix) + 1, Len(s)) = suffix

\* s.replace(old, new) and re.sub(old, new, s) for an id without metacharacters
RECURSIVE Replace(_, _, _)
Replace(s, old, new) ==
    IF Len(s) < Len(old) \/ old = <<>> THEN s
    ELSE IF SubSeq(s, 1, Len(old)) = old
         THEN new \o Replace(SubSeq(s, Len(old) + 1, Len(s)), old, new)
         ELSE <<s[1]>> \o Replace(Tail(s), old, new)

\* re.sub(old, new, file_contents), on the literals the parser reads
ReSubLiteral(x, old, new) ==
    IF x.t = "str" THEN Str(Replace(x.v, old, new))
    ELSE IF x.t = "tuple" THEN Tuple([i \in 1..Len(x.v) |-> Replace(x.v[i], old, new)])
         ELSE x

re_sub(old, new, file_contents) ==
    [file_contents EXCEPT !.revision = ReSubLiteral(@, old, new),
                          !.down_revision = ReSubLiteral(@, old, new)]

\* `not x` for a parsed value
Falsy(x) == x.t = "none" \/ x.v = <<>>

(***************************************************************************)
(* get_alembic_revision_map: the revision history index.                   *)
(***************************************************************************)
\* the loop over the files of one versions directory: [raised, history, downs]
RECURSIVE scan_versions(_, _, _)
scan_versions(fs, i, acc) ==
    IF i > Len(fs) \/ acc.raised # "" THEN acc
    ELSE LET parsed == parse_revisions_from_file(fs[i].contents)
             revision == parsed[1]
             down_revision == parsed[2]
         IN IF ~EndsWith(fs[i].filepath, <<".", "p", "y">>)
            THEN scan_versions(fs, i + 1, acc)
            ELSE IF Falsy(revision) /\ Falsy(down_revision)
            THEN scan_versions(fs, i + 1, acc)
            ELSE LET a1 == [acc EXCEPT !.history = @ \cup {revision}]
                 IN IF down_revision.t = "none"
                    THEN scan_versions(fs, i + 1, a1)
                    ELSE IF down_revision.t = "str"
                         THEN scan_versions(fs, i + 1,
                                  [a1 EXCEPT !.downs = @ \cup {down_revision}])
                         ELSE IF down_revision.t = "tuple"
                              THEN scan_versions(fs, i + 1,
                                       [a1 EXCEPT !.downs =
                                           @ \cup {Str(x) : x \in Range(down_revision.v)}])
                              ELSE [a1 EXCEPT !.raised = "Implementation Error"]

\* mutant of index_directory: with several candidates one of them becomes the head
index_directory_picking_a_head(fs) ==
    LET acc == scan_versions(fs, 1, [raised |-> "", history |-> {}, downs |-> {}])
        difference == acc.history \ acc.downs
    IN IF acc.raised # ""
       THEN [outcome |-> "exception", history |-> acc.history, difference |-> {},
             head |-> None]
       ELSE IF acc.history = {} /\ acc.downs = {}
            THEN [outcome |-> "skipped", history |-> {}, difference |-> {}, head |-> None]
            ELSE IF difference = {}
                 THEN [outcome |-> "assert", history |-> acc.history,
                       difference |-> difference, head |-> None]
                 ELSE [outcome |-> "entry", history |-> acc.history,
                       difference |-> difference,
                       head |-> CHOOSE h \in difference : TRUE]

\* the body of the loop over script_locations, for one location:
\* [outcome, history, difference, head]
index_directory(fs) ==
    LET acc == scan_versions(fs, 1, [raised |-> "", history |-> {}, downs |-> {}])
        difference == acc.history \ acc.downs
    IN IF acc.raised # ""
       THEN [outcome |-> "exception", history |-> acc.history, difference |-> {},
             head |-> None]
       ELSE IF acc.history = {} /\ acc.downs = {}
            THEN [outcome |-> "skipped", history |-> {}, difference |-> {}, head |-> None]
            ELSE IF Cardinality(difference) # 1
                 THEN [outcome |-> "assert", history |-> acc.history,
                       difference |-> difference, head |-> None]
                 ELSE [outcome |-> "entry", history |-> acc.history,
                       difference |-> difference,
                       head |-> CHOOSE h \in difference : TRUE]

\* alembic_map[script_location] = {...}: a dict keeps the position of a key it has
SetEntry(map, script_location, head, history) ==
    LET e == [script_location |-> script_location, head |-> head, history |-> history]
    IN IF \E i \in 1..Len(map) : map[i].script_location = script_location
       THEN [i \in 1..Len(map) |->
                IF map[i].script_location = script_location THEN e ELSE map[i]]
       ELSE Append(map, e)


(***************************************************************************)
(* fix_alembic_revisions: which changed files are stale.                   *)
(***************************************************************************)
\* the working directory of the pass, the root of the checkout
Cwd == <<"/", "w">>

\* os.path.abspath(filename) for a path relative to the working directory
abspath(filename) == Cwd \o <<"/">> \o filename

DotPy == <<".", "p", "y">>

\* the entry of the first script location the file lies under, in dict order
first_script_location(map, abs_filename) ==
    LET hits == {i \in 1..Len(map) : StartsWith(abs_filename, map[i].script_location)}
    IN IF hits = {} THEN 0 ELSE CHOOSE i \in hits : \A j \in hits : i <= j

\* the dict appended to files_to_update; contents is what GitHub serves for
\* (pr_sha, filename), read again by update_pull_request
FileToUpdate(filename, revision, down_revision, head_revision, contents) ==
    [filename |-> filename, revision |-> revision, down_revision |-> down_revision,
     head_revision |-> head_revision, contents |-> contents]

\* one iteration of the loop over changed_files: [kind, entry]
classify(map, changed_file) ==
    LET filename == changed_file.filename
        n == first_script_location(map, abspath(filename))
        parsed == parse_revisions_from_file(changed_file.contents)
        revision == parsed[1]
        down_revision == parsed[2]
        skip(kind) == [kind |-> kind, entry |-> None]
    IN IF changed_file.status = "removed" THEN skip("removed")
       ELSE IF ~EndsWith(filename, DotPy) THEN skip("not_python")
       ELSE IF n = 0 THEN skip("outside")
       ELSE IF map[n].history = {} THEN skip("empty_history")
       ELSE IF Falsy(revision) \/ Falsy(down_revision) THEN skip("not_migration")
       ELSE IF revision \in map[n].history THEN skip("in_place")
       ELSE IF down_revision \notin map[n].history THEN skip("later_in_chain")
       ELSE IF down_revision = map[n].head THEN skip("consistent")
       ELSE [kind |-> "stale",
             entry |-> FileToUpdate(filename, revision, down_revision, map[n].head,
                                    changed_file.contents)]

\* the calls to GitHub a loop iteration makes before it gets to its verdict
fetches_contents(kind) ==
    kind \notin {"removed", "not_python", "outside", "empty_history"}

(***************************************************************************)
(* update_pull_request: the stale guard and the rewrite of one file.       *)
(***************************************************************************)
EngineMessage == <<"update", " ", "alembic", " ", "revision", " ", "id">>
MergeMasterPrefix == <<"Merge", " ", "branch", " ", "'", "master", "'">>
MergeMessage == MergeMasterPrefix \o <<" ", "into", " ", "topic">>
OtherMessage == <<"add", " ", "table">>
EmptyMessage == <<>>

\* line.strip(" '")
RECURSIVE lstrip(_)
lstrip(line) ==
    IF line # <<>> /\ line[1] \in {" ", "'"} THEN lstrip(Tail(line)) ELSE line

RECURSIVE rstrip(_)
rstrip(line) ==
    IF line # <<>> /\ line[Len(line)] \in {" ", "'"}
    THEN rstrip(SubSeq(line, 1, Len(line) - 1))
    ELSE line

strip(line) == rstrip(lstrip(line))

\* stdout of git log -n <n> --format='%s', split at "\n": the last n subjects,
\* most recent first, each between the quotes of the format, and a last empty line
git_log_lines(subjects, n) ==
    [i \in 1..Min(n, Len(subjects)) |-> <<"'">> \o subjects[i] \o <<"'">>] \o <<EmptyMessage>>

RECURSIVE SelectSeq2(_, _)
SelectSeq2(seq, keep) ==
    IF seq = <<>> THEN <<>>
    ELSE IF keep[1] THEN <<seq[1]>> \o SelectSeq2(Tail(seq), Tail(keep))
         ELSE SelectSeq2(Tail(seq), Tail(keep))

\* get_last_commit_messages(n), given the subjects on the branch
get_last_commit_messages(subjects, n) ==
    LET lines == git_log_lines(subjects, n)
        stripped == [i \in 1..Len(lines) |-> strip(lines[i])]
    IN SelectSeq2(stripped, [i \in 1..Len(stripped) |-> stripped[i] # <<>>])

\* mutant of stale_guard: the three most recent messages, merges of master included
stale_guard_unfiltered(commit_messages) ==
    /\ Len(commit_messages) >= 3
    /\ \A i \in 1..3 : commit_messages[i] = EngineMessage

\* the filter and the comparison of commit_messages[:3] with three repair messages
stale_guard(commit_messages) ==
    LET filtered == SelectSeq2(commit_messages,
                        [i \in 1..Len(commit_messages) |->
                            ~StartsWith(commit_messages[i], MergeMasterPrefix)])
    IN /\ Len(filtered) >= 3
       /\ \A i \in 1..3 : filtered[i] = EngineMessage

\* mutant of new_revision_id: the file's own number plus one
new_revision_id_own_prefix(head_revision, revision) ==
    zfill(str(int(group1(IF SeqMatch(revision) THEN revision ELSE head_revision)) + 1), 5)
        \o <<"_">>
        \o (IF SeqMatch(revision) THEN group2(revision) ELSE group2(head_revision))

\* str(int(match.group(1)) + 1).zfill(5) + "_" + (revision_match or match).group(2)
new_revision_id(head_revision, revision) ==
    zfill(str(int(group1(head_revision)) + 1), 5)
        \o <<"_">>
        \o (IF SeqMatch(revision) THEN group2(revision) ELSE group2(head_revision))

\* mutant of rewrite: the file is renamed only when its own id is sequential too
rewrite_own_id_sequential(file_to_update) ==
    LET revision == file_to_update.revision.v
        head_revision == file_to_update.head_revision.v
        substituted == re_sub(file_to_update.down_revision.v, head_revision,
                              file_to_update.contents)
        id == new_revision_id(head_revision, revision)
    IN IF SeqMatch(head_revision) /\ SeqMatch(revision)
       THEN [renamed |-> TRUE,
             new_revision_id |-> id,
             new_filename |-> Replace(file_to_update.filename, revision, id),
             new_file_contents |-> re_sub(revision, id, substituted)]
       ELSE [renamed |-> FALSE,
             new_revision_id |-> revision,
             new_filename |-> file_to_update.filename,
             new_file_contents |-> substituted]

\* the body of the loop over files_to_update, without its VCS commands:
\* [renamed, new_revision_id, new_filename, new_file_contents]
rewrite(file_to_update) ==
    LET revision == file_to_update.revision.v
        head_revision == file_to_update.head_revision.v
        substituted == re_sub(file_to_update.down_revision.v, head_revision,
                              file_to_update.contents)
        id == new_revision_id(head_revision, revision)
    IN IF SeqMatch(head_revision)
       THEN [renamed |-> TRUE,
             new_revision_id |-> id,
             new_filename |-> Replace(file_to_update.filename, revision, id),
             new_file_contents |-> re_sub(revision, id, substituted)]
       ELSE [renamed |-> FALSE,
             new_revision_id |-> revision,
             new_filename |-> file_to_update.filename,
             new_file_contents |-> substituted]


(***************************************************************************)
(* The checkouts, pull requests and branch logs the repair pass is run on. *)
(***************************************************************************)
IdA == <<"A">>
IdB == <<"B">>
IdC == <<"C">>
IdD == <<"D">>
IdM == <<"M">>
Id09 == <<"0", "0", "0", "0", "9", "_", "x", "y", "z", "1", "2">>
Id10 == <<"0", "0", "0", "1", "0", "_", "a", "b", "c", "d", "e">>
Id11 == <<"0", "0", "0", "1", "1", "_", "f", "g", "h", "i", "j">>
\* two migrations of one pull request, numbered on from 00009
Id10F == <<"0", "0", "0", "1", "0", "_", "f", "g", "h", "i", "j">>
Id11K == <<"0", "0", "0", "1", "1", "_", "k", "l", "m", "n", "o">>

\* script locations, relative to the working directory
RelR == <<"r">>
RelS == <<"s">>
RelX == <<"x">>
\* a script location whose path begins with the path of RelR
RelRS == <<"r", "s">>

\* <script_location>/versions/<name>
VersionsPath(rel, name) ==
    rel \o <<"/", "v", "e", "r", "s", "i", "o", "n", "s", "/">> \o name

MigrationPath(rel, id) == VersionsPath(rel, id \o DotPy)

\* a migration file that ast.parse reads
Migration(rel, id, down_revision) ==
    [filepath |-> MigrationPath(rel, id),
     contents |-> Contents(TRUE, Str(id), down_revision)]

\* a migration file ast.parse raises on; the two byte-regexes match
Unparsed(rel, id, down) ==
    [filepath |-> MigrationPath(rel, id),
     contents |-> Contents(FALSE, Str(id), Str(down))]

\* versions/__init__.py and versions/README: no revision, no down_revision
InitPy(rel) ==
    [filepath |-> VersionsPath(rel, <<"_", "_", "i", "n", "i", "t", "_", "_">> \o DotPy),
     contents |-> Contents(TRUE, None, None)]

Readme(rel) ==
    [filepath |-> VersionsPath(rel, <<"R", "E", "A", "D", "M", "E">>),
     contents |-> Contents(TRUE, Str(IdD), Str(IdA))]

ScriptLocation(rel, fs) == [script_location |-> abspath(rel), files |-> fs]

ChainR == <<InitPy(RelR), Migration(RelR, IdA, None), Migration(RelR, IdB, Str(IdA)),
            Readme(RelR)>>
ChainS == <<Migration(RelS, Id09, None), Migration(RelS, Id10, Str(Id09))>>
ChainRS == <<Migration(RelRS, Id09, None), Migration(RelRS, Id10, Str(Id09))>>
UnmergedR == <<Migration(RelR, IdA, None), Migration(RelR, IdB, Str(IdA)),
               Migration(RelR, IdC, Str(IdA))>>
MergedR == UnmergedR \o <<Migration(RelR, IdM, Tuple(<<IdB, IdC>>))>>
CycleR == <<Migration(RelR, IdA, Str(IdB)), Migration(RelR, IdB, Str(IdA))>>
UnparsedR == <<Migration(RelR, IdA, None), Unparsed(RelR, IdB, IdA)>>
NoFilesR == <<InitPy(RelR), Readme(RelR)>>

Trees ==
    { <<ScriptLocation(RelR, ChainR), ScriptLocation(RelS, ChainS)>>,
      <<ScriptLocation(RelR, NoFilesR), ScriptLocation(RelS, ChainS)>>,
      <<ScriptLocation(RelS, ChainS), ScriptLocation(RelR, UnmergedR)>>,
      <<ScriptLocation(RelR, MergedR)>>,
      <<ScriptLocation(RelR, CycleR), ScriptLocation(RelS, ChainS)>>,
      <<ScriptLocation(RelR, UnparsedR), ScriptLocation(RelS, ChainS)>>,
      <<ScriptLocation(RelR, ChainR), ScriptLocation(RelRS, ChainRS)>> }

\* an element of the list get_github_pull_request_changed_files returns, with
\* the contents GitHub serves for it at the head of the pull request
ChangedFile(f, status) ==
    [filename |-> f.filepath, status |-> status, contents |-> f.contents]

ChangedCandidates ==
    << ChangedFile(Migration(RelR, IdC, Str(IdA)), "added"),
       ChangedFile(Migration(RelR, IdC, Str(IdB)), "added"),
       ChangedFile(Unparsed(RelR, IdC, IdA), "added"),
       ChangedFile(Migration(RelS, Id11, Str(Id09)), "added"),
       ChangedFile(Migration(RelR, IdB, Str(IdA)), "modified"),
       ChangedFile(Migration(RelR, IdD, Str(IdC)), "added"),
       ChangedFile(Migration(RelR, IdC, Str(IdA)), "removed"),
       ChangedFile(Readme(RelR), "modified"),
       ChangedFile(Migration(RelX, IdC, Str(IdA)), "added"),
       ChangedFile(Migration(RelR, IdD, Tuple(<<IdA, IdB>>)), "added"),
       ChangedFile(InitPy(RelR), "modified"),
       ChangedFile(Migration(RelS, IdC, Str(Id09)), "added"),
       ChangedFile(Migration(RelR, Id11, Str(IdA)), "added"),
       ChangedFile(Migration(RelS, Id10F, Str(Id09)), "added"),
       ChangedFile(Migration(RelS, Id11K, Str(Id10F)), "added"),
       ChangedFile(Migration(RelRS, Id11, Str(Id09)), "added") >>

BaseBranches == {"master", "develop"}

\* depth of the base commit of a pull request in the mainline history; 0 when
\* the commit is not on the mainline
BaseDepths == {0, 1, 150}

Subjects == {EngineMessage, MergeMessage, OtherMessage, EmptyMessage}

RECURSIVE SeqsUpTo(_, _)
SeqsUpTo(S, n) ==
    IF n = 0 THEN {<<>>}
    ELSE SeqsUpTo(S, n - 1)
         \cup {Append(q, x) : q \in {r \in SeqsUpTo(S, n - 1) : Len(r) = n - 1}, x \in S}

\* the subjects on a pull request branch, most recent first
BranchLogs ==
    {[i \in 1..k |-> MergeMessage] \o q :
        k \in {0, MaxMerges}, q \in SeqsUpTo(Subjects, MaxLog) \ {<<>>}}

\* commits ?page=<page>&per_page=100 of the mainline: the depths of the commits
\* of the response, as lo..hi; GitHub serves the first page for page 0
PageOfCommits(page) ==
    LET n == IF page = 0 THEN 1 ELSE page
        lo == (n - 1) * 100 + 1
        hi == Min(n * 100, MasterHistory)
    IN [lo |-> lo, hi |-> hi]

\* base_sha in master_commits
base_in_master_commits == base_index # 0 /\ base_index <= master_upto

RepairInit ==
    /\ GraphIdle
    /\ LockIdle
    /\ MainIdle
    /\ GetIdle
    /\ tree \in Trees
    /\ fpc = "index"
    /\ idx_i = 0
    /\ index_log = <<>>
    /\ alembic_revisions = <<>>
    /\ open_prs = <<>>
    /\ pr_i = 0
    /\ master_len = 0
    /\ master_upto = 0
    /\ PerPullRequestInit


(***************************************************************************)
(* Actions of the chain repair pass.  An uncaught exception ends the pass  *)
(* (fpc = "crashed"); a return from update_pull_request ends the work on   *)
(* that pull request (fpc = "returned").                                   *)
(***************************************************************************)
perPullRequest ==
    <<n_examined, cand_k, last_classified, files_to_update, later_in_chain, update_calls,
      base_index, fetches, raw_log, file_j, ops, ignored_failure, writes>>

Crash(exception) ==
    /\ fpc' = "crashed"
    /\ error' = exception

Return(message) ==
    /\ fpc' = "returned"
    /\ error' = message

\* get_alembic_revision_map: the loop body for the next script location
IndexDirectory ==
    /\ fpc = "index"
    /\ idx_i < Len(tree)
    /\ LET d == tree[idx_i + 1]
           r == index_directory(d.files)
       IN /\ idx_i' = idx_i + 1
          /\ index_log' = Append(index_log,
                 [script_location |-> d.script_location, outcome |-> r.outcome,
                  history |-> r.history, difference |-> r.difference, head |-> r.head])
          /\ alembic_revisions' =
                 IF r.outcome = "entry"
                 THEN SetEntry(alembic_revisions, d.script_location, r.head, r.history)
                 ELSE alembic_revisions
          /\ IF r.outcome = "exception" THEN Crash("Implementation Error")
             ELSE IF r.outcome = "assert" THEN Crash("AssertionError")
                  ELSE UNCHANGED <<fpc, error>>
    /\ UNCHANGED <<notRepair, tree, open_prs, pr_i, master_len, master_upto, perPullRequest>>

\* get_github_open_pull_requests()
GetOpenPullRequests ==
    /\ fpc = "index"
    /\ idx_i = Len(tree)
    /\ \E ok \in BOOLEAN :
          IF ok THEN fpc' = "pr" /\ UNCHANGED error ELSE Crash("HTTPError")
    /\ UNCHANGED <<notRepair, tree, idx_i, index_log, alembic_revisions, open_prs, pr_i,
                   master_len, master_upto, perPullRequest>>

\* the head of the loop over the open pull requests, up to the changed files
ExaminePullRequest ==
    /\ fpc = "pr"
    /\ Len(open_prs) < MaxPRs
    /\ \E base_branch \in BaseBranches, ok \in BOOLEAN :
          /\ open_prs' = Append(open_prs, base_branch)
          /\ pr_i' = pr_i + 1
          /\ IF base_branch # "master" THEN UNCHANGED <<fpc, error>>
             ELSE IF ok THEN fpc' = "files" /\ UNCHANGED error
                  ELSE Crash("HTTPError")
    /\ UNCHANGED <<notRepair, tree, idx_i, index_log, alembic_revisions, master_len,
                   master_upto, perPullRequest>>

\* the loop over the open pull requests is exhausted
NoMorePullRequests ==
    /\ fpc = "pr"
    /\ fpc' = "done"
    /\ UNCHANGED <<notRepair, tree, idx_i, index_log, alembic_revisions, open_prs, pr_i,
                   master_len, master_upto, perPullRequest, error>>

\* one iteration of the loop over changed_files
ClassifyFile ==
    /\ fpc = "files"
    /\ n_examined < MaxChanged
    /\ \E k \in (cand_k + 1)..Len(ChangedCandidates), ok \in BOOLEAN :
          LET changed_file == ChangedCandidates[k]
              c == classify(alembic_revisions, changed_file)
          IN /\ cand_k' = k
             /\ n_examined' = n_examined + 1
             /\ IF fetches_contents(c.kind) /\ ~ok
                THEN /\ Crash("HTTPError")
                     /\ last_classified' = [kind |-> "raised", file |-> changed_file]
                     /\ UNCHANGED <<files_to_update, later_in_chain>>
                ELSE /\ last_classified' = [kind |-> c.kind, file |-> changed_file]
                     /\ files_to_update' =
                            IF c.kind = "stale" THEN Append(files_to_update, c.entry)
                            ELSE files_to_update
                     /\ later_in_chain' =
                            IF c.kind = "later_in_chain"
                            THEN Append(later_in_chain, changed_file)
                            ELSE later_in_chain
                     /\ UNCHANGED <<fpc, error>>
    /\ UNCHANGED <<notRepair, tree, idx_i, index_log, alembic_revisions, open_prs, pr_i,
                   master_len, master_upto, update_calls, base_index, fetches, raw_log,
                   file_j, ops, ignored_failure, writes>>

\* the end of the loop over changed_files: if files_to_update, update_pull_request
EndOfChangedFiles ==
    /\ fpc = "files"
    /\ IF files_to_update # <<>>
       THEN /\ update_calls' = update_calls + 1
            /\ fpc' = "u_info"
            /\ UNCHANGED error
       ELSE /\ Return("nothing to update")
            /\ UNCHANGED update_calls
    /\ n_examined' = 0
    /\ cand_k' = 0
    /\ last_classified' = [kind |-> "none"]
    /\ UNCHANGED <<notRepair, tree, idx_i, index_log, alembic_revisions, open_prs, pr_i,
                   master_len, master_upto, files_to_update, later_in_chain, base_index,
                   fetches, raw_log,
                   file_j, ops, ignored_failure, writes>>

\* get_github_pull_request_info(pr_number)
UpdateInfo ==
    /\ fpc = "u_info"
    /\ \E depth \in BaseDepths, ok \in BOOLEAN :
          IF ok THEN fpc' = "u_base" /\ base_index' = depth /\ UNCHANGED error
          ELSE Crash("HTTPError") /\ UNCHANGED base_index
    /\ UNCHANGED <<notRepair, tree, idx_i, index_log, alembic_revisions, open_prs, pr_i,
                   master_len, master_upto, n_examined, cand_k, last_classified,
                   files_to_update, later_in_chain, update_calls, fetches, raw_log,
                   file_j, ops,
                   ignored_failure, writes>>

\* mutant of maximum_fetch_depth_reached: the comparison is off by one
maximum_fetch_depth_passed(n) == n > MaxFetchDepth

\* if fetches >= 50
maximum_fetch_depth_reached(n) == n >= MaxFetchDepth

\* one iteration of `while base_sha not in master_commits`
DeepenMaster ==
    /\ fpc = "u_base"
    /\ ~base_in_master_commits
    /\ fetches' = fetches + 1
    /\ \E return_code \in {0, 1}, ok \in BOOLEAN :
          IF maximum_fetch_depth_reached(fetches + 1)
          THEN Return("maximum fetch depth") /\ UNCHANGED <<master_len, master_upto, ops>>
          ELSE /\ ops' = Append(ops, IF master_len = 0 THEN "fetch --deepen=99"
                                     ELSE "fetch --deepen=100")
               /\ IF return_code # 0
                  THEN Return("git fetch master failed")
                       /\ UNCHANGED <<master_len, master_upto>>
                  ELSE IF ~ok
                       THEN Crash("HTTPError") /\ UNCHANGED <<master_len, master_upto>>
                       ELSE LET page == PageOfCommits(master_len \div 100)
                            IN /\ master_len' =
                                      master_len + (IF page.hi >= page.lo
                                                    THEN page.hi - page.lo + 1 ELSE 0)
                               /\ master_upto' =
                                      IF page.hi > master_upto THEN page.hi
                                      ELSE master_upto
                               /\ UNCHANGED <<fpc, error>>
    /\ UNCHANGED <<notRepair, tree, idx_i, index_log, alembic_revisions, open_prs, pr_i,
                   n_examined, cand_k, last_classified, files_to_update, later_in_chain,
                   update_calls,
                   base_index, raw_log, file_j, ignored_failure, writes>>

\* the loop ends and git fetch origin <pr_branch> runs
FetchBranch ==
    /\ fpc = "u_base"
    /\ base_in_master_commits
    /\ ops' = Append(ops, "fetch branch")
    /\ \E return_code \in {0, 1} :
          IF return_code # 0 THEN Return("git fetch branch failed")
          ELSE fpc' = "u_checkout" /\ UNCHANGED error
    /\ UNCHANGED <<notRepair, tree, idx_i, index_log, alembic_revisions, open_prs, pr_i,
                   master_len, master_upto, n_examined, cand_k, last_classified,
                   files_to_update, later_in_chain, update_calls, base_index, fetches,
                   raw_log, file_j,
                   ignored_failure, writes>>

\* git checkout -b <pr_branch> origin/<pr_branch>
Checkout ==
    /\ fpc = "u_checkout"
    /\ ops' = Append(ops, "checkout")
    /\ \E return_code \in {0, 1} :
          IF return_code # 0 THEN Return("git checkout failed")
          ELSE fpc' = "u_log" /\ UNCHANGED error
    /\ UNCHANGED <<notRepair, tree, idx_i, index_log, alembic_revisions, open_prs, pr_i,
                   master_len, master_upto, n_examined, cand_k, last_classified,
                   files_to_update, later_in_chain, update_calls, base_index, fetches,
                   raw_log, file_j,
                   ignored_failure, writes>>


\* get_last_commit_messages(6) and the stale guard
GetLog ==
    /\ fpc = "u_log"
    /\ \E returncode \in {0, 1}, subjects \in BranchLogs :
          LET commit_messages == get_last_commit_messages(subjects, LogDepth)
          IN IF returncode # 0
             THEN raw_log' = <<>> /\ Return("failed to retrieve commit messages")
             ELSE /\ raw_log' = subjects
                  /\ IF commit_messages = <<>>
                     THEN Return("failed to retrieve commit messages")
                     ELSE IF stale_guard(commit_messages)
                          THEN Return("already updated three times")
                          ELSE fpc' = "u_merge" /\ UNCHANGED error
    /\ UNCHANGED <<notRepair, tree, idx_i, index_log, alembic_revisions, open_prs, pr_i,
                   master_len, master_upto, n_examined, cand_k, last_classified,
                   files_to_update, later_in_chain, update_calls, base_index, fetches,
                   file_j, ops,
                   ignored_failure, writes>>

\* git merge master, and git merge --abort when it fails; commit_messages is
\* not read again
MergeMaster ==
    /\ fpc = "u_merge"
    /\ \E return_code \in {0, 1} :
          ops' = IF return_code # 0 THEN ops \o <<"merge", "merge --abort">>
                 ELSE Append(ops, "merge")
    /\ fpc' = "u_file"
    /\ file_j' = 0
    /\ raw_log' = <<>>
    /\ UNCHANGED <<notRepair, tree, idx_i, index_log, alembic_revisions, open_prs, pr_i,
                   master_len, master_upto, n_examined, cand_k, last_classified,
                   files_to_update, later_in_chain, update_calls, base_index, fetches,
                   ignored_failure,
                   writes, error>>

Unlinked(filename) ==
    [op |-> "unlink", path |-> filename, contents |-> None, entry |-> None]

Written(filename, contents, entry) ==
    [op |-> "write", path |-> filename, contents |-> contents, entry |-> entry]

\* one iteration of the loop over files_to_update
UpdateFile ==
    /\ fpc = "u_file"
    /\ file_j < Len(files_to_update)
    /\ \E ok \in BOOLEAN, on_disk \in BOOLEAN, rm_code \in {0, 1}, add_code \in {0, 1} :
          LET file_to_update == files_to_update[file_j + 1]
              r == rewrite(file_to_update)
          IN IF ~ok
             THEN Crash("HTTPError") /\ UNCHANGED <<file_j, ops, ignored_failure, writes>>
             ELSE IF r.renamed /\ ~on_disk
                  THEN Crash("FileNotFoundError")
                       /\ UNCHANGED <<file_j, ops, ignored_failure, writes>>
                  ELSE /\ file_j' = file_j + 1
                       /\ UNCHANGED <<fpc, error>>
                       /\ IF r.renamed
                          THEN /\ writes' = writes \o
                                     <<Unlinked(file_to_update.filename),
                                       Written(r.new_filename, r.new_file_contents,
                                               file_to_update)>>
                               /\ ops' = ops \o <<"rm", "add">>
                               /\ ignored_failure' =
                                     (ignored_failure \/ rm_code # 0 \/ add_code # 0)
                          ELSE /\ writes' = Append(writes,
                                     Written(file_to_update.filename, r.new_file_contents,
                                             file_to_update))
                               /\ UNCHANGED <<ops, ignored_failure>>
    /\ UNCHANGED <<notRepair, tree, idx_i, index_log, alembic_revisions, open_prs, pr_i,
                   master_len, master_upto, n_examined, cand_k, last_classified,
                   files_to_update, later_in_chain, update_calls, base_index, fetches,
                   raw_log>>

\* git commit -am "update alembic revision id"
Commit ==
    /\ fpc = "u_file"
    /\ file_j = Len(files_to_update)
    /\ ops' = Append(ops, "commit")
    /\ \E return_code \in {0, 1} :
          IF return_code # 0 THEN Return("git commit failed")
          ELSE fpc' = "u_push" /\ UNCHANGED error
    /\ UNCHANGED <<notRepair, tree, idx_i, index_log, alembic_revisions, open_prs, pr_i,
                   master_len, master_upto, n_examined, cand_k, last_classified,
                   files_to_update, later_in_chain, update_calls, base_index, fetches,
                   raw_log, file_j,
                   ignored_failure, writes>>

\* git push
Push ==
    /\ fpc = "u_push"
    /\ ops' = Append(ops, "push")
    /\ \E return_code \in {0, 1} :
          IF return_code # 0 THEN Return("git push failed") ELSE Return("pushed")
    /\ UNCHANGED <<notRepair, tree, idx_i, index_log, alembic_revisions, open_prs, pr_i,
                   master_len, master_upto, n_examined, cand_k, last_classified,
                   files_to_update, later_in_chain, update_calls, base_index, fetches,
                   raw_log, file_j,
                   ignored_failure, writes>>

\* the loop over the open pull requests goes on to the next one
NextPullRequest ==
    /\ fpc = "returned"
    /\ fpc' = "pr"
    /\ PerPullRequestReset
    /\ UNCHANGED <<notRepair, tree, idx_i, index_log, alembic_revisions, open_prs, pr_i,
                   master_len, master_upto>>

RepairNext ==
    \/ IndexDirectory
    \/ GetOpenPullRequests
    \/ ExaminePullRequest
    \/ NoMorePullRequests
    \/ ClassifyFile
    \/ EndOfChangedFiles
    \/ UpdateInfo
    \/ DeepenMaster
    \/ FetchBranch
    \/ Checkout
    \/ GetLog
    \/ MergeMaster
    \/ UpdateFile
    \/ Commit
    \/ Push
    \/ NextPullRequest

SpecRepair == RepairInit /\ [][RepairNext]_vars


(***************************************************************************)
(* Properties of the chain repair pass.                                    *)
(***************************************************************************)
\* the id a parsed value spells, whatever its Python type
IdValue(x) == IF x.t \in {"str", "bytes"} THEN x.v ELSE x

IdValues(S) == {IdValue(x) : x \in S}

\* the migration files of a versions directory and what they declare
MigrationFiles(fs) ==
    {i \in 1..Len(fs) :
        /\ EndsWith(fs[i].filepath, DotPy)
        /\ \/ ~Falsy(parse_revisions_from_file(fs[i].contents)[1])
           \/ ~Falsy(parse_revisions_from_file(fs[i].contents)[2])}

DeclaredRevisions(fs) ==
    {parse_revisions_from_file(fs[i].contents)[1] : i \in MigrationFiles(fs)}

DeclaredPredecessors(fs) ==
    UNION {LET d == parse_revisions_from_file(fs[i].contents)[2]
           IN IF d.t = "none" THEN {}
              ELSE IF d.t = "tuple" THEN {Str(x) : x \in Range(d.v)}
                   ELSE {d} : i \in MigrationFiles(fs)}

HeadCandidates(fs) == DeclaredRevisions(fs) \ DeclaredPredecessors(fs)

\* the index has an entry for the script location
Indexed(script_location) ==
    \E n \in 1..Len(alembic_revisions) :
        alembic_revisions[n].script_location = script_location

\* script locations whose loop body ran to its end or to the assertion
Measured == {i \in 1..Len(index_log) : index_log[i].outcome # "exception"}

\* C6 as stated: a head exactly when the difference has one element, and an
\* assertion failure whenever it has two or more elements or none
C6_AssertionUnlessOneHead ==
    \A i \in Measured :
        LET candidates == HeadCandidates(tree[i].files)
        IN IF Cardinality(candidates) = 1
           THEN /\ index_log[i].outcome = "entry"
                /\ index_log[i].head \in candidates
           ELSE index_log[i].outcome = "assert"

\* C6, amended: the index gets a head for a directory only when (all revision
\* ids) minus (all predecessor ids) has exactly one element, and that element
\* is the head; with two or more elements, or with none in a directory that
\* has migration files, the pass ends in an assertion failure and the directory
\* gets no entry; a directory without any migration file has an empty
\* difference too, and is skipped without an assertion and without an entry.
C6_HeadOnlyFromOneCandidate ==
    \A i \in Measured :
        LET candidates == HeadCandidates(tree[i].files)
            e == index_log[i]
        IN /\ e.outcome = "entry" <=> Cardinality(candidates) = 1
           /\ e.outcome = "entry" =>
                 /\ e.head \in candidates
                 /\ \E n \in 1..Len(alembic_revisions) :
                       /\ alembic_revisions[n].script_location = e.script_location
                       /\ alembic_revisions[n].head = e.head
                       /\ alembic_revisions[n].history = DeclaredRevisions(tree[i].files)
           /\ e.outcome = "assert" <=>
                 /\ Cardinality(candidates) # 1
                 /\ MigrationFiles(tree[i].files) # {}
           /\ e.outcome = "assert" =>
                 /\ i = Len(index_log)
                 /\ fpc = "crashed"
                 /\ error = "AssertionError"
                 /\ ~Indexed(e.script_location)
           /\ e.outcome = "skipped" <=> MigrationFiles(tree[i].files) = {}
           /\ e.outcome = "skipped" => ~Indexed(e.script_location)

\* files A(pred=None), B(pred=A), C(pred=A): two candidates, assertion failure
C6_Witness ==
    /\ fpc = "crashed"
    /\ error = "AssertionError"
    /\ index_log # <<>>
    /\ index_log[Len(index_log)].outcome = "assert"
    /\ HeadCandidates(tree[Len(index_log)].files) = {Str(IdB), Str(IdC)}
    /\ DeclaredRevisions(tree[Len(index_log)].files) = {Str(IdA), Str(IdB), Str(IdC)}

\* the changed file examined last parses as a migration file of an indexed chain
ExaminedMigration ==
    /\ last_classified.kind \notin {"none", "raised"}
    /\ last_classified.file.status # "removed"
    /\ EndsWith(last_classified.file.filename, DotPy)
    /\ first_script_location(alembic_revisions, abspath(last_classified.file.filename)) # 0
    /\ ~Falsy(parse_revisions_from_file(last_classified.file.contents)[1])
    /\ ~Falsy(parse_revisions_from_file(last_classified.file.contents)[2])

\* the index entry of the changed file examined last
ExaminedEntry ==
    alembic_revisions[first_script_location(alembic_revisions,
                                            abspath(last_classified.file.filename))]

\* revision not in the history, predecessor in the history and not the head
Outdated(revision, down_revision, entry) ==
    /\ IdValue(revision) \notin IdValues(entry.history)
    /\ IdValue(down_revision) \in IdValues(entry.history)
    /\ IdValue(down_revision) # IdValue(entry.head)

\* C4 as stated: a changed file that is not deleted and parses as a migration
\* file is marked stale if and only if its revision is not in the history, its
\* predecessor is in the history and its predecessor is not the head, and then
\* the head is its rewrite target; only files marked stale are rewritten; the
\* repair action runs once for a pull request with a stale file and not at all,
\* without checkout, merge, commit or push, for a pull request with none.
C4_StaleIffOutdated ==
    /\ ExaminedMigration =>
          LET parsed == parse_revisions_from_file(last_classified.file.contents)
          IN /\ last_classified.kind = "stale" <=> Outdated(parsed[1], parsed[2], ExaminedEntry)
             /\ last_classified.kind = "stale" =>
                   /\ files_to_update # <<>>
                   /\ files_to_update[Len(files_to_update)].filename
                          = last_classified.file.filename
                   /\ files_to_update[Len(files_to_update)].head_revision
                          = ExaminedEntry.head
    /\ \A i \in 1..Len(writes) :
          writes[i].op = "write" => \E j \in 1..Len(files_to_update) :
                                        files_to_update[j] = writes[i].entry
    /\ update_calls <= 1
    /\ files_to_update # <<>> /\ fpc \notin {"files", "crashed"} => update_calls = 1
    /\ files_to_update = <<>> => update_calls = 0 /\ ops = <<>> /\ writes = <<>>


\* the stale guard has been evaluated on the log of the branch
GuardEvaluated ==
    \/ fpc = "u_merge"
    \/ fpc = "returned" /\ error = "already updated three times"

AbortedByGuard == fpc = "returned" /\ error = "already updated three times"

\* the three most recent commit subjects on the branch are all the repair message
ThreeMostRecentAreRepairs(subjects) ==
    /\ Len(subjects) >= 3
    /\ \A i \in 1..3 : subjects[i] = EngineMessage

NothingRewritten ==
    /\ writes = <<>>
    /\ \A i \in 1..Len(ops) : ops[i] \notin {"merge", "merge --abort", "rm", "add",
                                             "commit", "push"}

\* C5 as stated: the repair action is aborted, before any merge, rewrite, commit
\* or push, exactly when the three most recent commit subjects on the branch
\* are all the repair-commit message
C5_AbortIffThreeMostRecent ==
    GuardEvaluated =>
        /\ AbortedByGuard <=> ThreeMostRecentAreRepairs(raw_log)
        /\ AbortedByGuard => NothingRewritten

\* the subjects the guard looks at: of the LogDepth most recent ones, those
\* that are not empty and do not start with "Merge branch 'master'"
Considered(subjects) ==
    LET recent == SubSeq(subjects, 1, Min(LogDepth, Len(subjects)))
    IN SelectSeq2(recent, [i \in 1..Len(recent) |->
                              /\ recent[i] # EmptyMessage
                              /\ ~StartsWith(recent[i], MergeMasterPrefix)])

\* C5, amended: the repair action is aborted by the guard, before any merge of
\* mainline, file rewrite, commit or push, exactly when, among the six most
\* recent commit subjects on the branch with the empty subjects and the
\* subjects starting with "Merge branch 'master'" left out, the first three
\* are all the repair-commit message; it is not aborted by the guard once
\* another subject is among these first three.
C5_AbortIffThreeConsidered ==
    GuardEvaluated =>
        /\ AbortedByGuard <=> ThreeMostRecentAreRepairs(Considered(raw_log))
        /\ AbortedByGuard => NothingRewritten

\* aborted on a branch with a merge of master between the repair commits
C5_Witness ==
    /\ AbortedByGuard
    /\ raw_log = <<EngineMessage, MergeMessage, EngineMessage, EngineMessage>>
    /\ NothingRewritten

Id12 == <<"0", "0", "0", "1", "2", "_", "f", "g", "h", "i", "j">>

\* the rewrites of the stale file 00011_fghij with predecessor 00009_xyz12
\* under the mainline head 00010_abcde
RewritesOf00011 ==
    {i \in 1..Len(writes) :
        /\ writes[i].op = "write"
        /\ writes[i].entry.revision = Str(Id11)
        /\ writes[i].entry.down_revision = Str(Id09)
        /\ writes[i].entry.head_revision = Str(Id10)}

\* C9 as stated: the file is renamed to revision 00012_fghij with its
\* predecessor rewritten to 00010_abcde
C9_RenamedTo00012 ==
    \A i \in RewritesOf00011 :
        /\ writes[i].contents.revision = Str(Id12)
        /\ writes[i].contents.down_revision = Str(Id10)
        /\ writes[i].path = MigrationPath(RelS, Id12)

\* C9, amended: with mainline head 00010_abcde, the stale file with revision
\* 00011_fghij and predecessor 00009_xyz12 gets the revision made of the head's
\* number plus one and its own suffix, 00011_fghij, which is the id it has: it
\* is deleted and written again under its own name, with its predecessor
\* rewritten to 00010_abcde.
C9_RenumberedFromHead ==
    \A i \in RewritesOf00011 :
        /\ writes[i].contents.revision = Str(Id11)
        /\ writes[i].contents.revision
              = Str(format_05d(int(group1(Id10)) + 1) \o <<"_">> \o group2(Id11))
        /\ writes[i].contents.down_revision = Str(Id10)
        /\ writes[i].path = MigrationPath(RelS, Id11)
        /\ i > 1
        /\ writes[i - 1] = Unlinked(MigrationPath(RelS, Id11))

C9_Witness ==
    /\ RewritesOf00011 # {}
    /\ fpc = "returned"
    /\ error = "pushed"


(***************************************************************************)
(* lock() and the __main__ block of alembic_bot_gocd.py: `with lock():     *)
(* main()`, for NumInstances instances against one table.  put_item with   *)
(* its ConditionExpression and delete_item are single steps of the store.  *)
(***************************************************************************)
Instances == 1..NumInstances

\* mutant of put_item: the item is put without the ConditionExpression
put_item_unconditional(item) == [raised |-> "", item |-> TRUE]

\* put_item(..., ConditionExpression="attribute_not_exists(id)") on the table
\* whose item is present or not: [raised, item]
put_item(item) ==
    IF item THEN [raised |-> "ConditionalCheckFailedException", item |-> item]
    ELSE [raised |-> "", item |-> TRUE]

\* mutant of gives_up: the comparison is off by one
gives_up_late(count) == count = MaxWaitCount + 1

\* if wait_count == 90
gives_up(count) == count = MaxWaitCount

\* mutant of after_yield: SystemExit, not an Exception, passes the handler by
after_yield_except_only(how) == IF how = "sys.exit" THEN "exited" ELSE "finally"

\* try: yield / except Exception: raise / finally: where control goes when
\* main() returns, calls sys.exit or raises
after_yield(how) == "finally"

LockInit ==
    /\ GraphIdle
    /\ RepairIdle
    /\ MainIdle
    /\ GetIdle
    /\ lock_item = FALSE
    /\ lpc = [i \in Instances |-> "put_item"]
    /\ wait_count = [i \in Instances |-> 0]
    /\ restarts = [i \in Instances |-> 0]
    /\ exit_status = [i \in Instances |-> "running"]
    /\ acquired = [i \in Instances |-> FALSE]
    /\ released = [i \in Instances |-> "no"]

\* one iteration of `while True`: put_item, and on a failed condition the count,
\* the exit at MaxWaitCount, or the sleep before the next iteration
PutItem(i) ==
    /\ lpc[i] = "put_item"
    /\ LET r == put_item(lock_item)
       IN IF r.raised = ""
          THEN /\ lock_item' = r.item
               /\ lpc' = [lpc EXCEPT ![i] = "main"]
               /\ acquired' = [acquired EXCEPT ![i] = TRUE]
               /\ UNCHANGED <<wait_count, exit_status>>
          ELSE /\ lock_item' = r.item
               /\ wait_count' = [wait_count EXCEPT ![i] = @ + 1]
               /\ IF gives_up(wait_count[i] + 1)
                  THEN /\ lpc' = [lpc EXCEPT ![i] = "exited"]
                       /\ exit_status' = [exit_status EXCEPT ![i] = "sys.exit(1) waiting"]
                  ELSE UNCHANGED <<lpc, exit_status>>
               /\ UNCHANGED acquired
    /\ UNCHANGED <<notLock, restarts, released>>

\* put_item raises another ClientError: lock() re-raises it
PutItemError(i) ==
    /\ lpc[i] = "put_item"
    /\ lpc' = [lpc EXCEPT ![i] = "exited"]
    /\ exit_status' = [exit_status EXCEPT ![i] = "ClientError"]
    /\ UNCHANGED <<notLock, lock_item, wait_count, restarts, acquired, released>>

\* main() restarts itself: return main()
MainRestart(i) ==
    /\ lpc[i] = "main"
    /\ restarts[i] < MaxRestarts
    /\ restarts' = [restarts EXCEPT ![i] = @ + 1]
    /\ UNCHANGED <<notLock, lock_item, lpc, wait_count, exit_status, acquired, released>>

\* main() ends: it returns, calls sys.exit or raises; control is in `finally`
MainEnd(i) ==
    /\ lpc[i] = "main"
    /\ \E how \in {"returned", "sys.exit", "Exception"} :
          /\ exit_status' = [exit_status EXCEPT ![i] = how]
          /\ lpc' = [lpc EXCEPT ![i] = after_yield(how)]
    /\ UNCHANGED <<notLock, lock_item, wait_count, restarts, acquired, released>>

\* finally: delete_item; when it raises the item stays
DeleteItem(i) ==
    /\ lpc[i] = "finally"
    /\ \E ok \in BOOLEAN :
          /\ lock_item' = IF ok THEN FALSE ELSE lock_item
          /\ released' = [released EXCEPT ![i] = IF ok THEN "deleted"
                                                  ELSE "delete_item raised"]
    /\ lpc' = [lpc EXCEPT ![i] = "exited"]
    /\ UNCHANGED <<notLock, wait_count, restarts, exit_status, acquired>>

LockNext ==
    \E i \in Instances :
        \/ PutItem(i)
        \/ PutItemError(i)
        \/ MainRestart(i)
        \/ MainEnd(i)
        \/ DeleteItem(i)

SpecLock == LockInit /\ [][LockNext]_vars

\* the instances between lock acquisition and lock release
Holders == {i \in DOMAIN lpc : lpc[i] \in {"main", "finally"}}

\* C10: at most one instance is between lock acquisition and lock release,
\* that is executing main() or about to delete the item, at any time, in every
\* interleaving, whether other instances time out waiting, the holder's main()
\* restarts itself or ends by exception or sys.exit.
C10_MutualExclusion ==
    /\ Cardinality(Holders) <= 1
    /\ Holders # {} => lock_item

\* an instance is in a restarted main() while another instance has given up
\* after MaxWaitCount failed attempts
C10_Witness ==
    \E i, j \in Instances :
        /\ i # j
        /\ lpc[i] = "main"
        /\ restarts[i] = 1
        /\ lpc[j] = "exited"
        /\ exit_status[j] = "sys.exit(1) waiting"
        /\ wait_count[j] = MaxWaitCount


\* the ways main() ends
MainEndings == {"returned", "sys.exit", "Exception"}

\* C11: once an instance has acquired the lock, delete_item is called on every
\* path by which main() ends (return, sys.exit, exception, after restarts) and
\* the record is gone when the store has performed it; delete_item is called
\* only after main() has finished, never while it is still running.
C11_ReleasedOnEveryExit ==
    /\ \A i \in DOMAIN lpc :
          /\ lpc[i] = "exited" /\ acquired[i] => released[i] # "no"
          /\ released[i] # "no" =>
                /\ lpc[i] = "exited"
                /\ acquired[i]
                /\ exit_status[i] \in MainEndings
          /\ lpc[i] = "main" => lock_item /\ released[i] = "no"
    /\ lock_item =>
          \/ Holders # {}
          \/ \E i \in DOMAIN lpc : released[i] = "delete_item raised"

\* a holder restarted main(), left it by sys.exit and the record is deleted
C11_Witness ==
    \E i \in Instances :
        /\ lpc[i] = "exited"
        /\ restarts[i] = MaxRestarts
        /\ exit_status[i] = "sys.exit"
        /\ released[i] = "deleted"
        /\ ~lock_item

\* C12: a waiting instance makes at most MaxWaitCount attempts and then exits
\* with a non-zero status without having acquired the lock; no instance takes
\* a step of main() without having acquired the lock first.
C12_BoundedWaitThenFatal ==
    \A i \in DOMAIN lpc :
        /\ wait_count[i] <= MaxWaitCount
        /\ wait_count[i] + (IF acquired[i] \/ exit_status[i] = "ClientError" THEN 1 ELSE 0)
              <= MaxWaitCount
        /\ wait_count[i] = MaxWaitCount <=>
              lpc[i] = "exited" /\ exit_status[i] = "sys.exit(1) waiting"
        /\ exit_status[i] = "sys.exit(1) waiting" => ~acquired[i] /\ restarts[i] = 0
        /\ (lpc[i] \in {"main", "finally"} \/ restarts[i] > 0
               \/ exit_status[i] \in MainEndings) => acquired[i]

\* an instance gave up after MaxWaitCount attempts while the holder was in main()
C12_Witness ==
    \E i, j \in Instances :
        /\ lpc[i] = "exited"
        /\ wait_count[i] = MaxWaitCount
        /\ exit_status[i] = "sys.exit(1) waiting"
        /\ lpc[j] = "main"
        /\ restarts[j] = 0

(***************************************************************************)
(* main() of alembic_bot_gocd.py: the reconciliation pass over every       *)
(* migrations directory, then pull, commit, push and notification.         *)
(***************************************************************************)
\* the directories the checkout can hold
LinearDir == Directory(2, <<{}, {1}>>, SequentialNames)
TwoHeadsDir == Directory(3, <<{}, {1}, {1}>>, SequentialNames)
TwoHeadsMixedDir == Directory(3, <<{}, {1}, {1}>>, MixedNames)
NoFilesDir == Directory(0, <<>>, SequentialNames)
TwoRootsDir == Directory(2, <<{}, {}>>, SequentialNames)
MainDirectories == {LinearDir, TwoHeadsDir, TwoHeadsMixedDir, NoFilesDir, TwoRootsDir}

\* yield_alembic_migrations_directories(): some directories, in some order
Checkouts == UNION {[1..n -> MainDirectories] : n \in 1..MaxDirs}

\* what a process returns
ReturnCodes == {0, 1}

\* what git pull prints on its standard output, line by line
UpToDate == "Already up to date."
PullStdouts == {<<>>, <<UpToDate>>, <<"Updating", "Fast-forward">>}

\* mutant of shows_new_changes: the output of the pull is not looked at
shows_new_changes_never(stdout) == FALSE

\* if stdout: ... if "Already up to date." not in stdout.decode("utf-8"):
shows_new_changes(stdout) == stdout # <<>> /\ ~Contains(stdout, UpToDate)

MainInit ==
    /\ GraphIdle
    /\ RepairIdle
    /\ LockIdle
    /\ GetIdle
    /\ migrations_dirs \in Checkouts
    /\ mpc = "pull"
    /\ dir_i = 0
    /\ main_commit_messages = <<>>
    /\ slack_messages = <<>>
    /\ main_calls = 1
    /\ vcs = <<>>
    /\ untracked = {}
    /\ exit_code = Running
    /\ runs = 1
    /\ before_run = migrations_dirs

\* one VCS command of call number main_calls of main()
Executed(cmd, rc, stdout) ==
    [cmd |-> cmd, returncode |-> rc, stdout |-> stdout, call |-> main_calls]

\* sys.exit(return_code)
SysExit(return_code) ==
    /\ mpc' = "ended"
    /\ exit_code' = [by |-> "sys.exit", code |-> return_code]

\* an exception leaves main(): the interpreter ends with status 1
Raised ==
    /\ mpc' = "ended"
    /\ exit_code' = [by |-> "Exception", code |-> 1]

\* main() returns: the interpreter ends with status 0
Done ==
    /\ mpc' = "ended"
    /\ exit_code' = [by |-> "return", code |-> 0]

ResetGraph ==
    /\ gpc' = "idle"
    /\ graph' = <<>>
    /\ revision_map' = <<>>
    /\ aliased' = {}
    /\ origin_revision' = None
    /\ revisions' = {}
    /\ processed_revisions' = {}
    /\ heads' = <<>>
    /\ popped' = <<>>
    /\ merge_head_revision' = None
    /\ merged' = <<>>

\* if return_code := execute("git", "pull"): sys.exit(return_code)
\* slack_messages.clear(); commit_messages = []
InitialPull ==
    /\ mpc = "pull"
    /\ \E rc \in ReturnCodes :
          /\ vcs' = Append(vcs, Executed("pull", rc, <<>>))
          /\ IF rc # 0
             THEN /\ SysExit(rc)
                  /\ UNCHANGED <<slack_messages, main_commit_messages, dir_i>>
             ELSE /\ slack_messages' = <<>>
                  /\ main_commit_messages' = <<>>
                  /\ dir_i' = 0
                  /\ mpc' = "dirs"
                  /\ UNCHANGED exit_code
    /\ UNCHANGED <<graphVars, notMain, migrations_dirs, main_calls, untracked>>

\* for migrations_dir in yield_alembic_migrations_directories(): the next directory
BeginDirectory ==
    /\ mpc = "dirs"
    /\ gpc = "idle"
    /\ dir_i < Len(migrations_dirs)
    /\ files' = migrations_dirs[dir_i + 1]
    /\ gpc' = "start"
    /\ SetHeap(Heap(EmptyMap, EmptyMap, {}))
    /\ popped' = EmptyMap
    /\ UNCHANGED <<notGraph, origin_revision, revisions, processed_revisions, heads,
                   merge_head_revision, merged, mutations, last_op>>

\* heads = find_heads(graph, graph[origin_revision])
MainFindHeads == gpc = "built" /\ FindHeadsBegin

\* with open(merge_heads_file, "w") as fp: fp.write(...) raises OSError, before the
\* git add and before insert_node
MergeHeadsWriteFails ==
    /\ mpc = "dirs"
    /\ gpc = "found"
    /\ merged = <<>>
    /\ Len(heads) > 1
    /\ gpc' = "raised"
    /\ UNCHANGED <<notGraph, files, graph, revision_map, aliased, origin_revision,
                   revisions, processed_revisions, heads, popped, merge_head_revision,
                   merged, mutations, last_op>>

\* get_alembic_revision_graph, the write of the merge file or insert_node raises:
\* nothing in main() catches it
DirectoryRaised ==
    /\ mpc = "dirs"
    /\ gpc = "raised"
    /\ Raised
    /\ UNCHANGED <<graphVars, notMain, migrations_dirs, dir_i, main_commit_messages,
                   slack_messages, main_calls, vcs, untracked>>

\* the rest of the loop body: execute("git", "add", merge_heads_file), whose return
\* code merge_heads drops, and the two appends of the message
EndDirectory ==
    /\ mpc = "dirs"
    /\ \/ gpc = "found" /\ Len(heads) <= 1
       \/ gpc = "merged"
    /\ migrations_dirs' = [migrations_dirs EXCEPT ![dir_i + 1] = files]
    /\ dir_i' = dir_i + 1
    /\ IF gpc = "merged"
       THEN \E rc \in ReturnCodes :
               LET message == [dir |-> dir_i + 1, revisions |-> merged,
                               merge_head_revision |-> merge_head_revision.v]
               IN /\ vcs' = Append(vcs, Executed("add", rc, <<>>))
                  /\ untracked' = IF rc = 0 THEN untracked
                                  ELSE untracked
                                         \cup {<<dir_i + 1, files[Len(files)].filepath>>}
                  /\ main_commit_messages' = Append(main_commit_messages, message)
                  /\ slack_messages' = Append(slack_messages, message)
       ELSE UNCHANGED <<vcs, untracked, main_commit_messages, slack_messages>>
    /\ files' = <<>>
    /\ ResetGraph
    /\ UNCHANGED <<notMain, mutations, last_op, mpc, main_calls, exit_code>>

\* if commit_messages: is false
NothingToCommit ==
    /\ mpc = "dirs"
    /\ gpc = "idle"
    /\ dir_i = Len(migrations_dirs)
    /\ main_commit_messages = <<>>
    /\ Done
    /\ UNCHANGED <<graphVars, notMain, migrations_dirs, dir_i, main_commit_messages,
                   slack_messages, main_calls, vcs, untracked>>

\* the second git pull; mainline moves at most MaxRestarts times during a run
Refetch ==
    /\ mpc = "dirs"
    /\ gpc = "idle"
    /\ dir_i = Len(migrations_dirs)
    /\ main_commit_messages # <<>>
    /\ \E stdout \in PullStdouts, rc \in ReturnCodes :
          /\ "Updating" \in Range(stdout) => main_calls <= MaxRestarts
          /\ vcs' = Append(vcs, Executed("pull again", rc, stdout))
          /\ IF shows_new_changes(stdout)
             THEN mpc' = "clean" /\ UNCHANGED exit_code
             ELSE IF rc # 0 THEN SysExit(rc)
             ELSE mpc' = "commit" /\ UNCHANGED exit_code
    /\ UNCHANGED <<graphVars, notMain, migrations_dirs, dir_i, main_commit_messages,
                   slack_messages, main_calls, untracked>>

\* the files of a directory that git clean -fd leaves
Tracked(d) ==
    SelectSeq2(migrations_dirs[d],
               [k \in 1..Len(migrations_dirs[d]) |->
                   <<d, migrations_dirs[d][k].filepath>> \notin untracked])

\* execute("git", "clean", "-fd"); return main()
Clean ==
    /\ mpc = "clean"
    /\ \E rc \in ReturnCodes :
          /\ vcs' = Append(vcs, Executed("clean", rc, <<>>))
          /\ IF rc # 0
             THEN /\ SysExit(rc)
                  /\ UNCHANGED <<migrations_dirs, untracked, main_calls>>
             ELSE /\ migrations_dirs' = [d \in DOMAIN migrations_dirs |-> Tracked(d)]
                  /\ untracked' = {}
                  /\ main_calls' = main_calls + 1
                  /\ mpc' = "pull"
                  /\ UNCHANGED exit_code
    /\ UNCHANGED <<graphVars, notMain, dir_i, main_commit_messages, slack_messages>>

\* execute("git", "commit", "-am", "\n".join(commit_messages))
GitCommit ==
    /\ mpc = "commit"
    /\ \E rc \in ReturnCodes :
          /\ vcs' = Append(vcs, Executed("commit", rc, <<>>))
          /\ IF rc # 0 THEN SysExit(rc) ELSE mpc' = "push" /\ UNCHANGED exit_code
    /\ UNCHANGED <<graphVars, notMain, migrations_dirs, dir_i, main_commit_messages,
                   slack_messages, main_calls, untracked>>

\* execute("git", "push")
GitPush ==
    /\ mpc = "push"
    /\ \E rc \in ReturnCodes :
          /\ vcs' = Append(vcs, Executed("push", rc, <<>>))
          /\ IF rc # 0 THEN SysExit(rc) ELSE mpc' = "notify" /\ UNCHANGED exit_code
    /\ UNCHANGED <<graphVars, notMain, migrations_dirs, dir_i, main_commit_messages,
                   slack_messages, main_calls, untracked>>

\* what send_slack_notifications() can come to: no token; git rev-parse HEAD with its
\* return code and then the posts, which are answered or raise
SlackOutcomes == {"no token", "posted", "post raised"}

\* send_slack_notifications(); print("done.")
SendSlackNotifications ==
    /\ mpc = "notify"
    /\ \E outcome \in SlackOutcomes, rc \in ReturnCodes :
          /\ vcs' = IF outcome = "no token" THEN Append(vcs, Executed("notify", 0, <<>>))
                    ELSE vcs \o <<Executed("rev-parse", rc, <<>>),
                                  Executed("notify", 0, <<outcome>>)>>
          /\ IF outcome = "post raised" THEN Raised ELSE Done
    /\ UNCHANGED <<graphVars, notMain, migrations_dirs, dir_i, main_commit_messages,
                   slack_messages, main_calls, untracked>>

\* the job is scheduled again on the checkout a run left with status 0: a new process
NextRun ==
    /\ mpc = "ended"
    /\ exit_code = [by |-> "return", code |-> 0]
    /\ runs < MaxRuns
    /\ runs' = runs + 1
    /\ before_run' = migrations_dirs
    /\ mpc' = "pull"
    /\ dir_i' = 0
    /\ main_commit_messages' = <<>>
    /\ slack_messages' = <<>>
    /\ main_calls' = 1
    /\ vcs' = <<>>
    /\ exit_code' = Running
    /\ UNCHANGED <<graphVars, prVars, lockVars, getVars, migrations_dirs, untracked>>

MainNext ==
    \/ NextRun
    \/ InitialPull
    \/ BeginDirectory
    \/ GetAlembicRevisionGraph
    \/ MainFindHeads
    \/ FindHeadsPop
    \/ FindHeadsReturn
    \/ MergeHeads
    \/ MergeHeadsWriteFails
    \/ DirectoryRaised
    \/ EndDirectory
    \/ NothingToCommit
    \/ Refetch
    \/ Clean
    \/ GitCommit
    \/ GitPush
    \/ SendSlackNotifications

SpecMain == MainInit /\ [][MainNext]_vars

\* the re-fetch of mainline brought new commits
ShowsNewCommits(op) == op.cmd = "pull again" /\ "Updating" \in Range(op.stdout)

\* C13: a commit or a push is executed only after a re-fetch, in the same call of
\* main(), that showed no new commits; a re-fetch that shows new commits is followed
\* by git clean and nothing else in that call, a clean that succeeded is followed by
\* the initial pull of the next call of main(), and the loop over the directories of
\* that call starts with both message accumulators empty.
C13_OptimisticRestart ==
    /\ \A j \in DOMAIN vcs :
          vcs[j].cmd \in {"commit", "push"}
             => \E k \in 1..(j - 1) :
                   /\ vcs[k].cmd = "pull again"
                   /\ vcs[k].call = vcs[j].call
                   /\ ~ShowsNewCommits(vcs[k])
    /\ \A k \in DOMAIN vcs :
          ShowsNewCommits(vcs[k])
             => /\ \A j \in DOMAIN vcs :
                      vcs[j].call = vcs[k].call => vcs[j].cmd \notin {"commit", "push"}
                /\ k = Len(vcs) => mpc = "clean"
                /\ k < Len(vcs) =>
                      vcs[k + 1].cmd = "clean" /\ vcs[k + 1].call = vcs[k].call
                /\ k + 1 < Len(vcs) =>
                      /\ vcs[k + 1].returncode = 0
                      /\ vcs[k + 2].cmd = "pull"
                      /\ vcs[k + 2].call = vcs[k].call + 1
                /\ k + 1 = Len(vcs) /\ vcs[k + 1].returncode = 0 =>
                      mpc = "pull" /\ main_calls = vcs[k].call + 1 /\ untracked = {}
    /\ main_calls > 1 /\ mpc = "dirs" /\ dir_i = 0 =>
          main_commit_messages = <<>> /\ slack_messages = <<>>
    /\ mpc = "dirs" =>
          /\ \A i \in DOMAIN main_commit_messages : main_commit_messages[i].dir <= dir_i
          /\ slack_messages = main_commit_messages

\* main() restarted itself after new commits, merged again and pushed
C13_Witness ==
    /\ main_calls = 2
    /\ \E k \in DOMAIN vcs : ShowsNewCommits(vcs[k]) /\ vcs[k].call = 1
    /\ \E j \in DOMAIN vcs : vcs[j].cmd = "push" /\ vcs[j].call = 2

\* the VCS commands whose return code main() tests
TestedCommands == {"pull", "clean", "pull again", "commit", "push"}

\* C14: the process ends with status 0 only if every VCS command it executed returned
\* 0; a non-zero return code of the initial pull, the clean, the second pull, the
\* commit or the push ends the process with a non-zero status before anything else
\* runs; the notification is sent only after a commit and a push that succeeded.
C14_ExitStatus ==
    /\ exit_code.by # "running" /\ exit_code.code = 0 =>
          \A j \in DOMAIN vcs : vcs[j].returncode = 0
    /\ \A j \in DOMAIN vcs :
          vcs[j].cmd \in TestedCommands /\ vcs[j].returncode # 0
             => j = Len(vcs) /\ mpc = "ended" /\ exit_code.code # 0
    /\ \A j \in DOMAIN vcs :
          vcs[j].cmd = "notify"
             => \E c, q \in 1..(j - 1) :
                   /\ c < q
                   /\ vcs[c].cmd = "commit" /\ vcs[c].returncode = 0
                   /\ vcs[q].cmd = "push" /\ vcs[q].returncode = 0
                   /\ vcs[c].call = vcs[j].call /\ vcs[q].call = vcs[j].call

\* what the work on a pull request can end with when a VCS command fails or the
\* hosting API still answers with an error on the last attempt of get()
ExternalFailures ==
    {"HTTPError", "git fetch master failed", "git fetch branch failed",
     "git checkout failed", "failed to retrieve commit messages", "git commit failed",
     "git push failed"}

\* C15: in the chain repair pass, a VCS command or hosting-API call that fails while
\* a pull request is processed ends the work on that pull request only: the pass is
\* back in the loop over the open pull requests, it has not ended.
C15_FailureAbandonsOnlyThePullRequest ==
    pr_i >= 1 /\ error \in ExternalFailures => fpc = "returned"

\* C16: when one directory violates a structural invariant (its graph cannot be
\* built in the reconciliation pass, or the assertion on its head fails in the
\* history index) and there is more than one directory, the run is not aborted
\* there: it ends that way only when the directory is the only one.
C16_PerDirectoryFaultIsolation ==
    /\ mpc = "ended" /\ gpc = "raised" => Len(migrations_dirs) = 1
    /\ fpc = "crashed" /\ error = "AssertionError" => Len(tree) = 1

\* C20: a directory without migration files does not make graph construction raise,
\* and the reconciliation pass goes on past it.
C20_EmptyDirectorySkipped ==
    /\ gpc = "raised" => files # <<>>
    /\ mpc = "ended" /\ exit_code.by = "Exception" /\ dir_i < Len(migrations_dirs)
          => migrations_dirs[dir_i + 1] # <<>>

\* C17: once the repair of a pull request is pushed, a changed file that was skipped
\* because its predecessor is the revision of a stale file of the same pull request
\* still names a revision that exists: the stale file was written with that id.
C17_ChainStaysLinked ==
    fpc = "returned" /\ error = "pushed" =>
       \A k \in 1..Len(later_in_chain), j \in 1..Len(files_to_update) :
          LET F2 == later_in_chain[k]
              F1 == files_to_update[j]
              predecessor == parse_revisions_from_file(F2.contents)[2]
          IN predecessor = F1.revision =>
                \E i \in 1..Len(writes) :
                   /\ writes[i].op = "write"
                   /\ writes[i].entry = F1
                   /\ writes[i].contents.revision = predecessor

\* the rewrites update_pull_request has made for this pull request
Rewrites == {i \in 1..Len(writes) : writes[i].op = "write"}

\* writes[i] is the renamed file: the old file was deleted first, the new id is the
\* head's number plus one with the given suffix, in the path and in the contents
RenamedWith(i, suffix) ==
    LET entry == writes[i].entry
        id == format_05d(int(group1(entry.head_revision.v)) + 1) \o <<"_">> \o suffix
    IN /\ i > 1
       /\ writes[i - 1] = Unlinked(entry.filename)
       /\ writes[i].path = Replace(entry.filename, entry.revision.v, id)
       /\ writes[i].contents.revision = Str(id)

\* writes[i] is the file rewritten in place: same path, same revision id, no delete
InPlace(i) ==
    /\ i > 1 => writes[i - 1].op # "unlink"
    /\ writes[i].path = writes[i].entry.filename
    /\ writes[i].contents.revision = writes[i].entry.revision

\* C19 as stated: a stale file is renumbered and renamed exactly when its own
\* revision id is in sequential form, keeping its own suffix, and is rewritten in
\* place otherwise; its predecessor becomes the mainline head either way.
C19_RenamedIffOwnIdSequential ==
    \A i \in Rewrites :
        /\ IF SeqMatch(writes[i].entry.revision.v)
           THEN SeqMatch(writes[i].entry.head_revision.v)
                   /\ RenamedWith(i, group2(writes[i].entry.revision.v))
           ELSE InPlace(i)
        /\ writes[i].contents.down_revision = writes[i].entry.head_revision

\* C19: a stale file is renumbered and renamed exactly when the id of the mainline
\* head is in sequential form; its new id is the head's number plus one, zero-padded
\* to 5 digits, "_" and the file's own suffix when its own id is sequential, the
\* head's suffix when it is not; the old file is deleted and the new one written under
\* the renamed path.  Under a head that is not sequential the file is rewritten in
\* place and keeps its id.  Its predecessor becomes the mainline head either way.
C19_RenamedIffHeadSequential ==
    \A i \in Rewrites :
        LET revision == writes[i].entry.revision.v
            head_revision == writes[i].entry.head_revision.v
        IN /\ IF SeqMatch(head_revision)
              THEN RenamedWith(i, IF SeqMatch(revision) THEN group2(revision)
                                  ELSE group2(head_revision))
              ELSE InPlace(i)
           /\ writes[i].contents.down_revision = writes[i].entry.head_revision

\* one pull request whose repair was pushed rewrote a file with a random id under a
\* sequential head and a file with a sequential id under a random head
C19_Witness ==
    /\ fpc = "returned"
    /\ error = "pushed"
    /\ \E i, j \in Rewrites :
          /\ ~SeqMatch(writes[i].entry.revision.v)
          /\ SeqMatch(writes[i].entry.head_revision.v)
          /\ SeqMatch(writes[j].entry.revision.v)
          /\ ~SeqMatch(writes[j].entry.head_revision.v)

\* C18: in a run of find_heads no revision is taken from the work set and expanded
\* more than once, whatever element set.pop() returns.
C18_VisitedAtMostOnce ==
    \A revision \in DOMAIN popped : popped[revision] <= 1

\* the merge summaries main() holds for directory d
SummariesOf(d) ==
    {i \in DOMAIN main_commit_messages : main_commit_messages[i].dir = d}
       \cup {i \in DOMAIN slack_messages : slack_messages[i].dir = d}

\* C21: when the write of the merge file fails, or its git add fails, the pass over
\* that directory stops there: no node is inserted, no merge summary of the directory
\* is in the commit message or the notifications, and the process does not end with
\* status 0.
C21_MergeFailureAborts ==
    /\ mpc = "dirs" /\ gpc = "raised" /\ Len(heads) > 1 =>
          /\ merged = <<>>
          /\ merge_head_revision = None
          /\ SummariesOf(dir_i + 1) = {}
    /\ mpc = "ended" /\ gpc = "raised" => exit_code.code # 0
    /\ \A u \in untracked :
          /\ SummariesOf(u[1]) = {}
          /\ mpc = "ended" => exit_code.code # 0

\* the VCS step a return of update_pull_request reports as failed
FailedStep ==
    [m \in {"git fetch master failed", "git fetch branch failed", "git checkout failed",
            "git commit failed", "git push failed"} |->
        CASE m = "git fetch master failed" -> {"fetch --deepen=99", "fetch --deepen=100"}
          [] m = "git fetch branch failed" -> {"fetch branch"}
          [] m = "git checkout failed" -> {"checkout"}
          [] m = "git commit failed" -> {"commit"}
          [] m = "git push failed" -> {"push"}]

\* C22: in update_pull_request a VCS step that fails, the merge of master aside, is
\* the last step for that pull request: nothing runs after a failed fetch, checkout,
\* log, git rm, git add, commit or push; no file is rewritten before fetch and
\* checkout succeeded, nothing is pushed before the commit succeeded, and the pass
\* goes on to the next pull request.
C22_FailedStepSkipsTheRest ==
    /\ error \in DOMAIN FailedStep =>
          fpc = "returned" /\ ops # <<>> /\ ops[Len(ops)] \in FailedStep[error]
    /\ error = "failed to retrieve commit messages" =>
          fpc = "returned" /\ ops[Len(ops)] = "checkout" /\ writes = <<>>
    /\ ignored_failure =>
          /\ fpc = "returned"
          /\ ops[Len(ops)] \in {"rm", "add"}
          /\ "commit" \notin Range(ops)
    /\ writes # <<>> =>
          \E i, j \in DOMAIN ops :
             i < j /\ ops[i] = "fetch branch" /\ ops[j] = "checkout"
    /\ \A j \in DOMAIN ops :
          ops[j] = "push" => j > 1 /\ ops[j - 1] = "commit"

\* the commands of the current run past its initial pulls
BeyondPull == {j \in DOMAIN vcs : vcs[j].cmd # "pull"}

\* nothing was merged so far in this call of main() and nothing is being merged
NothingMerged == main_commit_messages = <<>> /\ gpc # "merged"

\* C23: a merge node is made for a directory exactly when find_heads returned two or
\* more heads for it, and once per directory and call of main(): the loop body ends
\* without a merge only with at most one head, and each merge summary is of another
\* directory and of two or more heads.  While no directory had two heads the run
\* writes no file and runs nothing but its initial pull, and so does every run on
\* the checkout an earlier run left with status 0.
C23_MergeOnlyWhenNeeded ==
    /\ [](/\ gpc = "merged" => Len(heads) >= 2 /\ merged = heads
          /\ mpc = "dirs" =>
                \A i, j \in DOMAIN main_commit_messages :
                   /\ Len(main_commit_messages[i].revisions) >= 2
                   /\ main_commit_messages[i].dir <= dir_i
                   /\ i # j => main_commit_messages[i].dir # main_commit_messages[j].dir
          /\ mpc \in {"dirs", "ended"} /\ main_calls = 1 /\ NothingMerged =>
                migrations_dirs = before_run /\ BeyondPull = {}
          /\ mpc \in {"clean", "commit", "push", "notify"} => main_commit_messages # <<>>
          /\ runs > 1 =>
                NothingMerged /\ migrations_dirs = before_run /\ BeyondPull = {})
    /\ [][/\ mpc = "dirs" /\ gpc = "found" /\ Len(heads) > 1 =>
                gpc' \in {"merged", "raised"} /\ dir_i' = dir_i
          /\ dir_i' = dir_i + 1 =>
                (Len(heads) > 1 <=>
                    Len(main_commit_messages') = Len(main_commit_messages) + 1)]_vars

\* a second run on the checkout that a run with a merge left has ended
C23_Witness ==
    /\ runs = 2
    /\ mpc = "ended"
    /\ exit_code.code = 0
    /\ \E d \in DOMAIN before_run :
          \E k \in 1..Len(before_run[d]) : before_run[d][k].filepath[1] = "merge_heads"

\* the deepen fetches run for the pull request in work
DeepenFetches == {j \in DOMAIN ops : ops[j] \in {"fetch --deepen=99", "fetch --deepen=100"}}

\* C24: the loop that deepens the clone runs fewer than 50 fetches for a pull
\* request; when it gives up at the cap, or a fetch fails, the work on the pull
\* request ends there: no branch fetch, no checkout, no rewrite, no commit, no push.
C24_DeepenLoopBounded ==
    /\ Cardinality(DeepenFetches) < MaxFetchDepth
    /\ Cardinality(DeepenFetches) <= fetches
    /\ fpc = "u_base" => fetches < MaxFetchDepth
    /\ error \in {"maximum fetch depth", "git fetch master failed"} =>
          /\ fpc = "returned"
          /\ DeepenFetches = DOMAIN ops
          /\ writes = <<>>
    /\ error = "maximum fetch depth" => fetches = MaxFetchDepth

\* the loop gave up at the cap, after 49 fetches
C24_Witness ==
    /\ error = "maximum fetch depth"
    /\ fpc = "returned"
    /\ Cardinality(DeepenFetches) = MaxFetchDepth - 1

(***************************************************************************)
(* get(url) of alembic_bot_pr.py, called MaxCalls times in a row.  An       *)
(* attempt ends with a response that raise_for_status() accepts, with the   *)
(* HTTPError of raise_for_status(), or with another exception of            *)
(* requests.get (connection refused, reset, timed out).                     *)
(***************************************************************************)
AttemptOutcomes == {"ok", "HTTPError", "ConnectionError"}

\* except requests.exceptions.HTTPError:
caught(outcome) == outcome = "HTTPError"

GetInit ==
    /\ GraphIdle
    /\ RepairIdle
    /\ LockIdle
    /\ MainIdle
    /\ get_pc = "attempting"
    /\ attempt = 0
    /\ outcomes = <<>>
    /\ slept = <<>>
    /\ responses = <<>>

\* one iteration of `for attempt in range(5)`; past the last one get() would fall
\* out of the loop and return None
Attempt ==
    /\ get_pc = "attempting"
    /\ attempt < MaxAttempts
    /\ \E outcome \in AttemptOutcomes :
          /\ outcomes' = Append(outcomes, outcome)
          /\ IF outcome = "ok"
             THEN get_pc' = "returned" /\ UNCHANGED <<attempt, slept>>
             ELSE IF ~caught(outcome)
                  THEN get_pc' = "raised" /\ UNCHANGED <<attempt, slept>>
                  ELSE IF attempt = MaxAttempts - 1
                       THEN get_pc' = "raised" /\ UNCHANGED <<attempt, slept>>
                       ELSE /\ slept' = Append(slept, attempt + 1)
                            /\ attempt' = attempt + 1
                            /\ get_pc' = IF attempt + 1 = MaxAttempts
                                         THEN "returned None" ELSE get_pc
    /\ UNCHANGED <<graphVars, prVars, lockVars, mainVars, responses>>

\* the caller has its response and calls get() again
NextCall ==
    /\ get_pc = "returned"
    /\ Len(responses) + 1 < MaxCalls
    /\ responses' = Append(responses, Len(outcomes))
    /\ get_pc' = "attempting"
    /\ attempt' = 0
    /\ outcomes' = <<>>
    /\ slept' = <<>>
    /\ UNCHANGED <<graphVars, prVars, lockVars, mainVars>>

GetNext == Attempt \/ NextCall

SpecGet == GetInit /\ [][GetNext]_vars

\* C25: a call of get() makes at most 5 attempts; its k-th failed attempt is followed
\* by a sleep of k seconds and another attempt, the fifth by the failure reaching the
\* caller; the call returns the first successful response, and it never returns
\* without one.
C25_RetriedWithLinearBackoff ==
    /\ Len(outcomes) <= MaxAttempts
    /\ \A k \in DOMAIN outcomes :
          /\ outcomes[k] = "ok" => k = Len(outcomes) /\ get_pc = "returned"
          /\ outcomes[k] # "ok" /\ k < MaxAttempts =>
                /\ Len(slept) >= k
                /\ slept[k] = k
                /\ get_pc \in {"attempting", "returned", "raised"}
    /\ get_pc = "raised" =>
          Len(outcomes) = MaxAttempts /\ \A k \in DOMAIN outcomes : outcomes[k] # "ok"
    /\ get_pc = "returned" => outcomes[Len(outcomes)] = "ok"
    /\ get_pc # "returned None"

(***************************************************************************)
(* The directory a changed file is compared with.                          *)
(***************************************************************************)
\* the index entries of the script locations the file lies in: the path of the
\* file continues the path of the location with a path separator
OwnDirectories(map, abs_filename) ==
    {i \in 1..Len(map) : StartsWith(abs_filename, map[i].script_location \o <<"/">>)}

\* the changed file examined last is a python file that was not deleted
ExaminedPython ==
    /\ last_classified.kind \notin {"none", "raised"}
    /\ last_classified.file.status # "removed"
    /\ EndsWith(last_classified.file.filename, DotPy)

\* C26: every changed file is classified against the index entry of the
\* migration directory that contains it and never against the entry of another
\* directory, also when the path of one location is a string prefix of the path
\* of another; a file that is stale in its own chain is marked for repair.
C26_ClassifiedAgainstOwnDirectory ==
    ExaminedPython =>
        LET file == last_classified.file
            own == OwnDirectories(alembic_revisions, abspath(file.filename))
            n == first_script_location(alembic_revisions, abspath(file.filename))
        IN /\ n # 0 => n \in own
           /\ \A i \in own :
                 /\ n = i
                 /\ last_classified.kind = classify(<<alembic_revisions[i]>>, file).kind
                 /\ classify(<<alembic_revisions[i]>>, file).kind = "stale" =>
                       /\ files_to_update # <<>>
                       /\ files_to_update[Len(files_to_update)].filename = file.filename
                       /\ files_to_update[Len(files_to_update)].head_revision
                              = alembic_revisions[i].head

====
